---- MODULE Spec2Model ----
(***************************************************************************)
(* State-machine model of the in-memory chess engine                       *)
(* (chess_backend/src/chess/engine.py) and of the HTTP handlers that call  *)
(* it (chess_backend/src/api/main.py).                                     *)
(*                                                                         *)
(* Conventions                                                             *)
(*  - A Python str is a sequence of Unicode code points: "e2" is           *)
(*    <<101, 50>>.  str.lower() and the comparisons of strings are         *)
(*    therefore computed on code points, as CPython does.                  *)
(*  - Optional[X] is a sequence of length 0 (None) or 1 (the value).       *)
(*  - A board cell is a Piece record, or NoPiece for Python's None.        *)
(*  - A raised IllegalMoveError is the string of its message; the two      *)
(*    f-string messages are represented by their fixed prefix.             *)
(***************************************************************************)
EXTENDS Integers, Sequences, FiniteSets, TLC

VARIABLES board, current_turn, game_status, history, request, response, before, played,
          threads, schedule, conversion, validation

vars == <<board, current_turn, game_status, history, request, response, before, played,
          threads, schedule, conversion, validation>>

----------------------------------------------------------------------------
(* Optional values *)

None == <<>>

Some(x) == <<x>>

IsNone(o) == o = <<>>

Get(o) == o[1]

----------------------------------------------------------------------------
(* Strings as code points *)

Abs(x) == IF x < 0 THEN -x ELSE x

Max2(x, y) == IF x >= y THEN x ELSE y

\* str.lower() on one character outside ASCII, as the interpreter's Unicode
\* 14.0 tables give it.  Each record of 19 hexadecimal digits is first (6),
\* last (6), stride (1) and the lower case of first (6): the code points
\* first, first + stride, ..., last are lower-cased by adding
\* lower(first) - first.
LowerData ==
    <<"0000C00000D610000E00000D80000DE10000F800010000012E20001010001320001362000133",
      "000139000147200013A00014A000176200014B00017800017810000FF00017900017D200017A",
      "0001810001811000253000182000184200018300018600018610002540001870001871000188",
      "00018900018A100025600018B00018B100018C00018E00018E10001DD00018F00018F1000259",
      "000190000190100025B000191000191100019200019300019310002600001940001941000263",
      "00019600019610002690001970001971000268000198000198100019900019C00019C100026F",
      "00019D00019D100027200019F00019F10002750001A00001A420001A10001A60001A61000280",
      "0001A70001A710001A80001A90001A910002830001AC0001AC10001AD0001AE0001AE1000288",
      "0001AF0001AF10001B00001B10001B2100028A0001B30001B520001B40001B70001B71000292",
      "0001B80001B810001B90001BC0001BC10001BD0001C40001C410001C60001C50001C510001C6",
      "0001C70001C710001C90001C80001C810001C90001CA0001CA10001CC0001CB0001DB20001CC",
      "0001DE0001EE20001DF0001F10001F110001F30001F20001F420001F30001F60001F61000195",
      "0001F70001F710001BF0001F800021E20001F9000220000220100019E0002220002322000223",
      "00023A00023A1002C6500023B00023B100023C00023D00023D100019A00023E00023E1002C66",
      "000241000241100024200024300024310001800002440002441000289000245000245100028C",
      "00024600024E20002470003700003722000371000376000376100037700037F00037F10003F3",
      "00038600038610003AC00038800038A10003AD00038C00038C10003CC00038E00038F10003CD",
      "0003910003A110003B10003A30003AB10003C30003CF0003CF10003D70003D80003EE20003D9",
      "0003F40003F410003B80003F70003F710003F80003F90003F910003F20003FA0003FA10003FB",
      "0003FD0003FF100037B00040000040F100045000041000042F10004300004600004802000461",
      "00048A0004BE200048B0004C00004C010004CF0004C10004CD20004C20004D000052E20004D1",
      "00053100055610005610010A00010C51002D000010C70010C71002D270010CD0010CD1002D2D",
      "0013A00013EF100AB700013F00013F510013F8001C90001CBA10010D0001CBD001CBF10010FD",
      "001E00001E942001E01001E9E001E9E10000DF001EA0001EFE2001EA1001F08001F0F1001F00",
      "001F18001F1D1001F10001F28001F2F1001F20001F38001F3F1001F30001F48001F4D1001F40",
      "001F59001F5F2001F51001F68001F6F1001F60001F88001F8F1001F80001F98001F9F1001F90",
      "001FA8001FAF1001FA0001FB8001FB91001FB0001FBA001FBB1001F70001FBC001FBC1001FB3",
      "001FC8001FCB1001F72001FCC001FCC1001FC3001FD8001FD91001FD0001FDA001FDB1001F76",
      "001FE8001FE91001FE0001FEA001FEB1001F7A001FEC001FEC1001FE5001FF8001FF91001F78",
      "001FFA001FFB1001F7C001FFC001FFC1001FF300212600212610003C900212A00212A100006B",
      "00212B00212B10000E5002132002132100214E00216000216F10021700021830021831002184",
      "0024B60024CF10024D0002C00002C2F1002C30002C60002C601002C61002C62002C62100026B",
      "002C63002C631001D7D002C64002C64100027D002C67002C6B2002C68002C6D002C6D1000251",
      "002C6E002C6E1000271002C6F002C6F1000250002C70002C701000252002C72002C721002C73",
      "002C75002C751002C76002C7E002C7F100023F002C80002CE22002C81002CEB002CED2002CEC",
      "002CF2002CF21002CF300A64000A66C200A64100A68000A69A200A68100A72200A72E200A723",
      "00A73200A76E200A73300A77900A77B200A77A00A77D00A77D1001D7900A77E00A786200A77F",
      "00A78B00A78B100A78C00A78D00A78D100026500A79000A792200A79100A79600A7A8200A797",
      "00A7AA00A7AA100026600A7AB00A7AB100025C00A7AC00A7AC100026100A7AD00A7AD100026C",
      "00A7AE00A7AE100026A00A7B000A7B0100029E00A7B100A7B1100028700A7B200A7B2100029D",
      "00A7B300A7B3100AB5300A7B400A7C2200A7B500A7C400A7C4100A79400A7C500A7C51000282",
      "00A7C600A7C61001D8E00A7C700A7C9200A7C800A7D000A7D0100A7D100A7D600A7D8200A7D7",
      "00A7F500A7F5100A7F600FF2100FF3A100FF4101040001042710104280104B00104D310104D8",
      "01057001057A101059701057C01058A10105A301058C01059210105B301059401059510105BB",
      "010C80010CB21010CC00118A00118BF10118C0016E40016E5F1016E6001E90001E921101E922">>

\* The code points with the Unicode property Case_Ignorable: records of 12
\* hexadecimal digits, first (6) and last (6) of a range.
CaseIgnorableData ==
    <<"00002700002700002E00002E00003A00003A00005E00005E0000600000600000A80000A8",
      "0000AD0000AD0000AF0000AF0000B40000B40000B70000B80002B000036F000374000375",
      "00037A00037A00038400038500038700038700048300048900055900055900055F00055F",
      "0005910005BD0005BF0005BF0005C10005C20005C40005C50005C70005C70005F40005F4",
      "00060000060500061000061A00061C00061C00064000064000064B00065F000670000670",
      "0006D60006DD0006DF0006E80006EA0006ED00070F00070F00071100071100073000074A",
      "0007A60007B00007EB0007F50007FA0007FA0007FD0007FD00081600082D00085900085B",
      "00088800088800089000089100089800089F0008C900090200093A00093A00093C00093C",
      "00094100094800094D00094D000951000957000962000963000971000971000981000981",
      "0009BC0009BC0009C10009C40009CD0009CD0009E20009E30009FE0009FE000A01000A02",
      "000A3C000A3C000A41000A42000A47000A48000A4B000A4D000A51000A51000A70000A71",
      "000A75000A75000A81000A82000ABC000ABC000AC1000AC5000AC7000AC8000ACD000ACD",
      "000AE2000AE3000AFA000AFF000B01000B01000B3C000B3C000B3F000B3F000B41000B44",
      "000B4D000B4D000B55000B56000B62000B63000B82000B82000BC0000BC0000BCD000BCD",
      "000C00000C00000C04000C04000C3C000C3C000C3E000C40000C46000C48000C4A000C4D",
      "000C55000C56000C62000C63000C81000C81000CBC000CBC000CBF000CBF000CC6000CC6",
      "000CCC000CCD000CE2000CE3000D00000D01000D3B000D3C000D41000D44000D4D000D4D",
      "000D62000D63000D81000D81000DCA000DCA000DD2000DD4000DD6000DD6000E31000E31",
      "000E34000E3A000E46000E4E000EB1000EB1000EB4000EBC000EC6000EC6000EC8000ECD",
      "000F18000F19000F35000F35000F37000F37000F39000F39000F71000F7E000F80000F84",
      "000F86000F87000F8D000F97000F99000FBC000FC6000FC600102D001030001032001037",
      "00103900103A00103D00103E00105800105900105E001060001071001074001082001082",
      "00108500108600108D00108D00109D00109D0010FC0010FC00135D00135F001712001714",
      "0017320017330017520017530017720017730017B40017B50017B70017BD0017C60017C6",
      "0017C90017D30017D70017D70017DD0017DD00180B00180F001843001843001885001886",
      "0018A90018A900192000192200192700192800193200193200193900193B001A17001A18",
      "001A1B001A1B001A56001A56001A58001A5E001A60001A60001A62001A62001A65001A6C",
      "001A73001A7C001A7F001A7F001AA7001AA7001AB0001ACE001B00001B03001B34001B34",
      "001B36001B3A001B3C001B3C001B42001B42001B6B001B73001B80001B81001BA2001BA5",
      "001BA8001BA9001BAB001BAD001BE6001BE6001BE8001BE9001BED001BED001BEF001BF1",
      "001C2C001C33001C36001C37001C78001C7D001CD0001CD2001CD4001CE0001CE2001CE8",
      "001CED001CED001CF4001CF4001CF8001CF9001D2C001D6A001D78001D78001D9B001DFF",
      "001FBD001FBD001FBF001FC1001FCD001FCF001FDD001FDF001FED001FEF001FFD001FFE",
      "00200B00200F00201800201900202400202400202700202700202A00202E002060002064",
      "00206600206F00207100207100207F00207F00209000209C0020D00020F0002C7C002C7D",
      "002CEF002CF1002D6F002D6F002D7F002D7F002DE0002DFF002E2F002E2F003005003005",
      "00302A00302D00303100303500303B00303B00309900309E0030FC0030FE00A01500A015",
      "00A4F800A4FD00A60C00A60C00A66F00A67200A67400A67D00A67F00A67F00A69C00A69F",
      "00A6F000A6F100A70000A72100A77000A77000A78800A78A00A7F200A7F400A7F800A7F9",
      "00A80200A80200A80600A80600A80B00A80B00A82500A82600A82C00A82C00A8C400A8C5",
      "00A8E000A8F100A8FF00A8FF00A92600A92D00A94700A95100A98000A98200A9B300A9B3",
      "00A9B600A9B900A9BC00A9BD00A9CF00A9CF00A9E500A9E600AA2900AA2E00AA3100AA32",
      "00AA3500AA3600AA4300AA4300AA4C00AA4C00AA7000AA7000AA7C00AA7C00AAB000AAB0",
      "00AAB200AAB400AAB700AAB800AABE00AABF00AAC100AAC100AADD00AADD00AAEC00AAED",
      "00AAF300AAF400AAF600AAF600AB5B00AB5F00AB6900AB6B00ABE500ABE500ABE800ABE8",
      "00ABED00ABED00FB1E00FB1E00FBB200FBC200FE0000FE0F00FE1300FE1300FE2000FE2F",
      "00FE5200FE5200FE5500FE5500FEFF00FEFF00FF0700FF0700FF0E00FF0E00FF1A00FF1A",
      "00FF3E00FF3E00FF4000FF4000FF7000FF7000FF9E00FF9F00FFE300FFE300FFF900FFFB",
      "0101FD0101FD0102E00102E001037601037A0107800107850107870107B00107B20107BA",
      "010A01010A03010A05010A06010A0C010A0F010A38010A3A010A3F010A3F010AE5010AE6",
      "010D24010D27010EAB010EAC010F46010F50010F82010F85011001011001011038011046",
      "01107001107001107301107401107F0110810110B30110B60110B90110BA0110BD0110BD",
      "0110C20110C20110CD0110CD01110001110201112701112B01112D011134011173011173",
      "0111800111810111B60111BE0111C90111CC0111CF0111CF01122F011231011234011234",
      "01123601123701123E01123E0112DF0112DF0112E30112EA01130001130101133B01133C",
      "01134001134001136601136C01137001137401143801143F011442011444011446011446",
      "01145E01145E0114B30114B80114BA0114BA0114BF0114C00114C20114C30115B20115B5",
      "0115BC0115BD0115BF0115C00115DC0115DD01163301163A01163D01163D01163F011640",
      "0116AB0116AB0116AD0116AD0116B00116B50116B70116B701171D01171F011722011725",
      "01172701172B01182F01183701183901183A01193B01193C01193E01193E011943011943",
      "0119D40119D70119DA0119DB0119E00119E0011A01011A0A011A33011A38011A3B011A3E",
      "011A47011A47011A51011A56011A59011A5B011A8A011A96011A98011A99011C30011C36",
      "011C38011C3D011C3F011C3F011C92011CA7011CAA011CB0011CB2011CB3011CB5011CB6",
      "011D31011D36011D3A011D3A011D3C011D3D011D3F011D45011D47011D47011D90011D91",
      "011D95011D95011D97011D97011EF3011EF4013430013438016AF0016AF4016B30016B36",
      "016B40016B43016F4F016F4F016F8F016F9F016FE0016FE1016FE3016FE401AFF001AFF3",
      "01AFF501AFFB01AFFD01AFFE01BC9D01BC9E01BCA001BCA301CF0001CF2D01CF3001CF46",
      "01D16701D16901D17301D18201D18501D18B01D1AA01D1AD01D24201D24401DA0001DA36",
      "01DA3B01DA6C01DA7501DA7501DA8401DA8401DA9B01DA9F01DAA101DAAF01E00001E006",
      "01E00801E01801E01B01E02101E02301E02401E02601E02A01E13001E13D01E2AE01E2AE",
      "01E2EC01E2EF01E8D001E8D601E94401E94B01F3FB01F3FF0E00010E00010E00200E007F",
      "0E01000E01EF">>

\* The code points that are cased and not Case_Ignorable, as ranges in the
\* same form.
CasedData ==
    <<"00004100005A00006100007A0000AA0000AA0000B50000B50000BA0000BA0000C00000D6",
      "0000D80000F60000F80001BA0001BC0001BF0001C40002930002950002AF000370000373",
      "00037600037700037B00037D00037F00037F00038600038600038800038A00038C00038C",
      "00038E0003A10003A30003F50003F700048100048A00052F000531000556000560000588",
      "0010A00010C50010C70010C70010CD0010CD0010D00010FA0010FD0010FF0013A00013F5",
      "0013F80013FD001C80001C88001C90001CBA001CBD001CBF001D00001D2B001D6B001D77",
      "001D79001D9A001E00001F15001F18001F1D001F20001F45001F48001F4D001F50001F57",
      "001F59001F59001F5B001F5B001F5D001F5D001F5F001F7D001F80001FB4001FB6001FBC",
      "001FBE001FBE001FC2001FC4001FC6001FCC001FD0001FD3001FD6001FDB001FE0001FEC",
      "001FF2001FF4001FF6001FFC00210200210200210700210700210A002113002115002115",
      "00211900211D00212400212400212600212600212800212800212A00212D00212F002134",
      "00213900213900213C00213F00214500214900214E00214E00216000217F002183002184",
      "0024B60024E9002C00002C7B002C7E002CE4002CEB002CEE002CF2002CF3002D00002D25",
      "002D27002D27002D2D002D2D00A64000A66D00A68000A69B00A72200A76F00A77100A787",
      "00A78B00A78E00A79000A7CA00A7D000A7D100A7D300A7D300A7D500A7D900A7F500A7F6",
      "00A7FA00A7FA00AB3000AB5A00AB6000AB6800AB7000ABBF00FB0000FB0600FB1300FB17",
      "00FF2100FF3A00FF4100FF5A01040001044F0104B00104D30104D80104FB01057001057A",
      "01057C01058A01058C0105920105940105950105970105A10105A30105B10105B30105B9",
      "0105BB0105BC010C80010CB2010CC0010CF20118A00118DF016E40016E7F01D40001D454",
      "01D45601D49C01D49E01D49F01D4A201D4A201D4A501D4A601D4A901D4AC01D4AE01D4B9",
      "01D4BB01D4BB01D4BD01D4C301D4C501D50501D50701D50A01D50D01D51401D51601D51C",
      "01D51E01D53901D53B01D53E01D54001D54401D54601D54601D54A01D55001D55201D6A5",
      "01D6A801D6C001D6C201D6DA01D6DC01D6FA01D6FC01D71401D71601D73401D73601D74E",
      "01D75001D76E01D77001D78801D78A01D7A801D7AA01D7C201D7C401D7CB01DF0001DF09",
      "01DF0B01DF1E01E90001E94301F13001F14901F15001F16901F17001F189">>

HexDigit(c) ==
    CASE c = "0" -> 0 [] c = "1" -> 1 [] c = "2" -> 2 [] c = "3" -> 3
      [] c = "4" -> 4 [] c = "5" -> 5 [] c = "6" -> 6 [] c = "7" -> 7
      [] c = "8" -> 8 [] c = "9" -> 9 [] c = "A" -> 10 [] c = "B" -> 11
      [] c = "C" -> 12 [] c = "D" -> 13 [] c = "E" -> 14 [] c = "F" -> 15

RECURSIVE HexNumber(_)
HexNumber(digits) ==
    IF Len(digits) = 0 THEN 0
    ELSE 16 * HexNumber(SubSeq(digits, 1, Len(digits) - 1))
            + HexDigit(SubSeq(digits, Len(digits), Len(digits)))

\* The records of the given width in the strings of a table.
Records(data, width) ==
    UNION {{SubSeq(data[i], (k - 1) * width + 1, k * width) :
               k \in 1..(Len(data[i]) \div width)} : i \in 1..Len(data)}

\* <<first, last, stride, delta>>: the code points first, first + stride, ...,
\* last are lower-cased by adding delta.
LowerRanges ==
    {<<HexNumber(SubSeq(r, 1, 6)), HexNumber(SubSeq(r, 7, 12)),
       HexNumber(SubSeq(r, 13, 13)),
       HexNumber(SubSeq(r, 14, 19)) - HexNumber(SubSeq(r, 1, 6))>> :
        r \in Records(LowerData, 19)}

\* <<first, last>>
CaseIgnorableRanges ==
    {<<HexNumber(SubSeq(r, 1, 6)), HexNumber(SubSeq(r, 7, 12))>> :
        r \in Records(CaseIgnorableData, 12)}

CasedRanges ==
    {<<HexNumber(SubSeq(r, 1, 6)), HexNumber(SubSeq(r, 7, 12))>> :
        r \in Records(CasedData, 12)}

InRanges(ch, ranges) == \E rg \in ranges : rg[1] <= ch /\ ch <= rg[2]

\* The amount added to a code point, given the deltas of the ranges it is in
\* (none or one).
PickDelta(deltas) == IF deltas = {} THEN 0 ELSE CHOOSE d \in deltas : TRUE

LowerDelta(ch) ==
    PickDelta({rg[4] : rg \in {r \in LowerRanges :
                                   /\ r[1] <= ch
                                   /\ ch <= r[2]
                                   /\ (ch - r[1]) % r[3] = 0}})

\* str.lower() of the one-character string chr(ch): a string of one
\* character, or of two for U+0130, the one character whose lower case has
\* two.
LowerChar(ch) ==
    IF ch < 128 THEN (IF ch >= 65 /\ ch <= 90 THEN <<ch + 32>> ELSE <<ch>>)
    ELSE IF ch = 304 THEN <<105, 775>>
    ELSE <<ch + LowerDelta(ch)>>

IsCaseIgnorable(ch) == InRanges(ch, CaseIgnorableRanges)

IsCased(ch) == InRanges(ch, CasedRanges)

SetMax(S) == CHOOSE j \in S : \A k \in S : k <= j

SetMin(S) == CHOOSE j \in S : \A k \in S : j <= k

\* Whether the capital sigma at position i is lower-cased as a final sigma:
\* the nearest character before it that is not case-ignorable is cased, and
\* the nearest such character after it, if any, is not.  solid holds the
\* positions of the characters that are not case-ignorable, cased those of
\* the cased ones among them.
FinalSigma(i, solid, cased) ==
    LET prev == {j \in solid : j < i}
        next == {j \in solid : j > i}
    IN  /\ prev # {}
        /\ SetMax(prev) \in cased
        /\ next = {} \/ SetMin(next) \notin cased

RECURSIVE LowerFrom(_, _, _, _)
LowerFrom(s, i, solid, cased) ==
    IF i > Len(s) THEN <<>>
    ELSE (IF s[i] = 931
             THEN (IF FinalSigma(i, solid, cased) THEN <<962>> ELSE <<963>>)
             ELSE LowerChar(s[i])) \o LowerFrom(s, i + 1, solid, cased)

\* str.lower()
Lower(s) ==
    LowerFrom(s, 1,
              {j \in 1..Len(s) : ~IsCaseIgnorable(s[j])},
              {j \in 1..Len(s) : IsCased(s[j])})

\* a < b for two Python strings: the order of the code points at the first
\* position where they differ, a proper prefix being the smaller.
StrLess(a, b) ==
    IF Len(a) = 1 /\ Len(b) = 1 THEN a[1] < b[1]
    ELSE \E k \in 1..(Len(a) + 1) :
            /\ k <= Len(b)
            /\ \A j \in 1..(k - 1) : a[j] = b[j]
            /\ k > Len(a) \/ a[k] < b[k]

\* chr(ord("a") + col), str(8 - row) for one digit
ChrFile(col) == 97 + col

StrDigit(n) == 48 + n

----------------------------------------------------------------------------
(* Pieces and the board *)

NoPiece == [type |-> "none", color |-> "none"]

Piece(t, c) == [type |-> t, color |-> c]

back_rank == <<"rook", "knight", "bishop", "queen", "king", "bishop", "knight", "rook">>

EmptyBoard == [r \in 0..7 |-> [c \in 0..7 |-> NoPiece]]

\* The board restart() builds.
InitialBoard ==
    [r \in 0..7 |-> [c \in 0..7 |->
        CASE r = 0 -> Piece(back_rank[c + 1], "black")
          [] r = 1 -> Piece("pawn", "black")
          [] r = 6 -> Piece("pawn", "white")
          [] r = 7 -> Piece(back_rank[c + 1], "white")
          [] OTHER -> NoPiece]]

\* Python list indexing: an index in -8..-1 counts from the end, anything
\* outside -8..7 raises IndexError.
InRange(i) == i >= -8 /\ i <= 7

PyIndex(i) == IF i < 0 THEN i + 8 ELSE i

CellAt(b, r, c) == b[PyIndex(r)][PyIndex(c)]

----------------------------------------------------------------------------
(* Error messages of IllegalMoveError, and the uncaught IndexError *)

NoError == "ok"

ErrNotInProgress == "Game is not in progress."

ErrSameSquare == "from and to squares must be different."

ErrSquareForm == "Square must be in algebraic form like 'e2'."

ErrFile == "File must be between a and h."

ErrRank == "Rank must be between 1 and 8."

ErrEmptySource == "No piece at"

ErrWrongTurn == "It is ...'s turn."

ErrFriendlyCapture == "Cannot capture your own piece."

ErrKnight == "Illegal knight move."

ErrBishop == "Illegal bishop move."

ErrRook == "Illegal rook move."

ErrQueen == "Illegal queen move."

ErrKing == "Illegal king move."

ErrUnknownPiece == "Unknown piece type."

ErrPromotionNotAllowed == "Promotion is only allowed when pawn reaches last rank."

ErrPawnCapture == "Illegal pawn capture."

ErrPawnSideways == "Illegal pawn move (pawns move straight unless capturing)."

ErrPawnBlocked == "Pawn move blocked."

ErrPawnMove == "Illegal pawn move."

ErrPathBlocked == "Path is blocked."

ErrInvalidPromotion == "Invalid promotion piece. Use one of: q, r, b, n."

ErrIndexOutOfBounds == "Index out of bounds."

IndexError == "IndexError"

\* ord() of a string that is not one character long
TypeError == "TypeError"

----------------------------------------------------------------------------
(* Coordinate conversion *)

\* algebraic_to_index from its two locals on: the range checks, ord() and
\* int().
square_index(file_char, rank_char) ==
    IF StrLess(file_char, <<97>>) \/ StrLess(<<104>>, file_char)
       THEN [err |-> ErrFile, row |-> 0, col |-> 0]
    ELSE IF StrLess(rank_char, <<49>>) \/ StrLess(<<56>>, rank_char)
       THEN [err |-> ErrRank, row |-> 0, col |-> 0]
    ELSE IF Len(file_char) # 1
       THEN [err |-> TypeError, row |-> 0, col |-> 0]
    ELSE [err |-> NoError,
          row |-> 8 - (rank_char[1] - 48),
          col |-> file_char[1] - 97]

\* algebraic_to_index: [err, row, col]; row and col are meaningful only
\* when err = NoError.
algebraic_to_index(square) ==
    IF Len(square) # 2 THEN [err |-> ErrSquareForm, row |-> 0, col |-> 0]
    ELSE square_index(LowerChar(square[1]), <<square[2]>>)

\* Mutant of index_to_algebraic: the rank digit is taken from the row as it is.
index_to_algebraic_rank_from_row(row, col) ==
    IF ~(0 <= row /\ row <= 7 /\ 0 <= col /\ col <= 7)
       THEN [err |-> ErrIndexOutOfBounds, square |-> <<>>]
       ELSE [err |-> NoError, square |-> <<ChrFile(col), StrDigit(row + 1)>>]

\* index_to_algebraic: [err, square]
index_to_algebraic(row, col) ==
    IF ~(0 <= row /\ row <= 7 /\ 0 <= col /\ col <= 7)
       THEN [err |-> ErrIndexOutOfBounds, square |-> <<>>]
       ELSE [err |-> NoError, square |-> <<ChrFile(col), StrDigit(8 - row)>>]

----------------------------------------------------------------------------
(* Piece-type legality.  Each operator yields NoError or the error raised. *)

Sign(d) == IF d = 0 THEN 0 ELSE IF d > 0 THEN 1 ELSE -1

\* The while loop of _require_clear_path, from cursor (r, c).
RECURSIVE ClearPathLoop(_, _, _, _, _, _)
ClearPathLoop(b, r, c, step_r, step_c, to) ==
    IF <<r, c>> = to THEN NoError
    ELSE IF ~(InRange(r) /\ InRange(c)) THEN IndexError
    ELSE IF CellAt(b, r, c) # NoPiece THEN ErrPathBlocked
    ELSE ClearPathLoop(b, r + step_r, c + step_c, step_r, step_c, to)

\* Mutant of require_clear_path: the cells in between are not looked at.
require_clear_path_unchecked(b, fr, to) == NoError

require_clear_path(b, fr, to) ==
    LET dr == to[1] - fr[1]
        dc == to[2] - fr[2]
        step_r == Sign(dr)
        step_c == Sign(dc)
    IN  ClearPathLoop(b, fr[1] + step_r, fr[2] + step_c, step_r, step_c, to)

\* Mutant of validate_pawn_move: the promotion argument is checked after
\* the pawn patterns instead of before them.
validate_pawn_move_code_last(b, piece, fr, to, dr, dc, capture, promotion) ==
    LET direction == IF piece.color = "white" THEN -1 ELSE 1
        start_row == IF piece.color = "white" THEN 6 ELSE 1
        pattern ==
            IF capture
                THEN (IF dr # direction \/ Abs(dc) # 1 THEN ErrPawnCapture ELSE NoError)
            ELSE IF dc # 0 THEN ErrPawnSideways
            ELSE IF dr = direction THEN NoError
            ELSE IF fr[1] = start_row /\ dr = 2 * direction
                THEN (IF CellAt(b, fr[1] + direction, fr[2]) # NoPiece THEN ErrPawnBlocked
                      ELSE NoError)
            ELSE ErrPawnMove
    IN  IF pattern # NoError THEN pattern
        ELSE IF ~IsNone(promotion) /\ to[1] \notin {0, 7} THEN ErrPromotionNotAllowed
        ELSE NoError

\* Mutant of validate_pawn_move: the double step is allowed from any row and
\* without looking at the intermediate cell.
validate_pawn_move_long_step(b, piece, fr, to, dr, dc, capture, promotion) ==
    LET direction == IF piece.color = "white" THEN -1 ELSE 1
    IN  IF ~IsNone(promotion) /\ to[1] \notin {0, 7} THEN ErrPromotionNotAllowed
        ELSE IF capture
            THEN (IF dr # direction \/ Abs(dc) # 1 THEN ErrPawnCapture ELSE NoError)
        ELSE IF dc # 0 THEN ErrPawnSideways
        ELSE IF dr = direction \/ dr = 2 * direction THEN NoError
        ELSE ErrPawnMove

\* Mutant of validate_pawn_move: a capture only needs |dc| <= 1, so a pawn
\* may capture straight ahead.
validate_pawn_move_capture_ahead(b, piece, fr, to, dr, dc, capture, promotion) ==
    LET direction == IF piece.color = "white" THEN -1 ELSE 1
        start_row == IF piece.color = "white" THEN 6 ELSE 1
    IN  IF ~IsNone(promotion) /\ to[1] \notin {0, 7} THEN ErrPromotionNotAllowed
        ELSE IF capture
            THEN (IF dr # direction \/ Abs(dc) > 1 THEN ErrPawnCapture ELSE NoError)
        ELSE IF dc # 0 THEN ErrPawnSideways
        ELSE IF dr = direction THEN NoError
        ELSE IF fr[1] = start_row /\ dr = 2 * direction
            THEN (IF CellAt(b, fr[1] + direction, fr[2]) # NoPiece THEN ErrPawnBlocked
                  ELSE NoError)
        ELSE ErrPawnMove

validate_pawn_move(b, piece, fr, to, dr, dc, capture, promotion) ==
    LET direction == IF piece.color = "white" THEN -1 ELSE 1
        start_row == IF piece.color = "white" THEN 6 ELSE 1
    IN  IF ~IsNone(promotion) /\ to[1] \notin {0, 7} THEN ErrPromotionNotAllowed
        ELSE IF capture
            THEN (IF dr # direction \/ Abs(dc) # 1 THEN ErrPawnCapture ELSE NoError)
        ELSE IF dc # 0 THEN ErrPawnSideways
        ELSE IF dr = direction
            THEN (IF CellAt(b, to[1], to[2]) # NoPiece THEN ErrPawnBlocked ELSE NoError)
        ELSE IF fr[1] = start_row /\ dr = 2 * direction
            THEN (IF CellAt(b, fr[1] + direction, fr[2]) # NoPiece THEN ErrPawnBlocked
                  ELSE IF CellAt(b, to[1], to[2]) # NoPiece THEN ErrPawnBlocked
                  ELSE NoError)
        ELSE ErrPawnMove

validate_knight(dr, dc) ==
    IF <<Abs(dr), Abs(dc)>> \notin {<<1, 2>>, <<2, 1>>} THEN ErrKnight ELSE NoError

\* Mutant of slider_pattern: a rook may go to any other square.
slider_pattern_rook_anywhere(type, dr, dc) ==
    CASE type = "bishop" ->
            (IF Abs(dr) # Abs(dc) \/ dr = 0 THEN ErrBishop ELSE NoError)
      [] type = "rook" ->
            (IF dr = 0 /\ dc = 0 THEN ErrRook ELSE NoError)
      [] type = "queen" ->
            (LET is_diag == Abs(dr) = Abs(dc) /\ dr # 0
                 is_straight == (dr = 0) # (dc = 0)
             IN  IF ~(is_diag \/ is_straight) THEN ErrQueen ELSE NoError)

\* The pattern checks that precede _require_clear_path for a bishop, a rook
\* and a queen.
slider_pattern(type, dr, dc) ==
    CASE type = "bishop" ->
            (IF Abs(dr) # Abs(dc) \/ dr = 0 THEN ErrBishop ELSE NoError)
      [] type = "rook" ->
            (IF ~(dr = 0 \/ dc = 0) THEN ErrRook
             ELSE IF dr = 0 /\ dc = 0 THEN ErrRook
             ELSE NoError)
      [] type = "queen" ->
            (LET is_diag == Abs(dr) = Abs(dc) /\ dr # 0
                 is_straight == (dr = 0) # (dc = 0)
             IN  IF ~(is_diag \/ is_straight) THEN ErrQueen ELSE NoError)

validate_bishop(b, fr, to, dr, dc) ==
    IF slider_pattern("bishop", dr, dc) # NoError THEN slider_pattern("bishop", dr, dc)
    ELSE require_clear_path(b, fr, to)

validate_rook(b, fr, to, dr, dc) ==
    IF slider_pattern("rook", dr, dc) # NoError THEN slider_pattern("rook", dr, dc)
    ELSE require_clear_path(b, fr, to)

validate_queen(b, fr, to, dr, dc) ==
    IF slider_pattern("queen", dr, dc) # NoError THEN slider_pattern("queen", dr, dc)
    ELSE require_clear_path(b, fr, to)

validate_king(dr, dc) ==
    IF Max2(Abs(dr), Abs(dc)) # 1 THEN ErrKing ELSE NoError

validate_piece_move(b, piece, fr, to, capture, promotion) ==
    LET dr == to[1] - fr[1]
        dc == to[2] - fr[2]
    IN  CASE piece.type = "pawn" -> validate_pawn_move(b, piece, fr, to, dr, dc, capture, promotion)
          [] piece.type = "knight" -> validate_knight(dr, dc)
          [] piece.type = "bishop" -> validate_bishop(b, fr, to, dr, dc)
          [] piece.type = "rook" -> validate_rook(b, fr, to, dr, dc)
          [] piece.type = "queen" -> validate_queen(b, fr, to, dr, dc)
          [] piece.type = "king" -> validate_king(dr, dc)
          [] OTHER -> ErrUnknownPiece

----------------------------------------------------------------------------
(* ChessGame.apply_move *)

\* Mutant of promotion_code: .lower() is left out.
promotion_code_case_sensitive(promotion) ==
    IF IsNone(promotion) \/ Get(promotion) = <<>> THEN <<113>> ELSE Get(promotion)

\* (promotion or "q").lower()
promotion_code(promotion) ==
    Lower(IF IsNone(promotion) \/ Get(promotion) = <<>> THEN <<113>> ELSE Get(promotion))

\* The codes "q", "r", "b", "n"
PromotionCodes == {<<113>>, <<114>>, <<98>>, <<110>>}

\* The dict lookup {"q": "queen", "r": "rook", "b": "bishop", "n": "knight"}[prom]
promoted_type(prom) ==
    CASE prom = <<113>> -> "queen"
      [] prom = <<114>> -> "rook"
      [] prom = <<98>> -> "bishop"
      [] prom = <<110>> -> "knight"

\* Mutant of move_number: computed from the log length after the append.
move_number_after_append(hist) == ((Len(hist) + 1) \div 2) + 1

\* (len(self.history) // 2) + 1
move_number(hist) == (Len(hist) \div 2) + 1

\* Mutant of toggle_turn: both branches give black.
toggle_turn_stuck(turn) == IF turn = "white" THEN "black" ELSE "black"

\* "black" if self.current_turn == "white" else "white"
toggle_turn(turn) == IF turn = "white" THEN "black" ELSE "white"

\* self.board[to] = piece; self.board[fr] = None
execute_move(b, fr, to, piece) ==
    [b EXCEPT ![to[1]][to[2]] = piece, ![fr[1]][fr[2]] = NoPiece]

\* A call that raises: the error, and the game as the call leaves it.
Raise(e, b, turn, hist) ==
    [err |-> e, board |-> b, current_turn |-> turn, history |-> hist, record |-> None]

\* Mutant of append_record: the record is put at the head of the log.
append_record_at_head(hist, rec) == <<rec>> \o hist

\* self.history.append(record)
append_record(hist, rec) == Append(hist, rec)

\* Mutant of apply_validated: an unknown promotion code falls back to the
\* queen instead of being rejected.
apply_validated_lenient(b, turn, hist, from_sq, to_sq, promotion, piece, fr, to, capture) ==
    LET moved == execute_move(b, fr, to, piece)
        promotes == piece.type = "pawn" /\ (to[1] = 0 \/ to[1] = 7)
        given == promotion_code(promotion)
        prom == IF given \in PromotionCodes THEN given ELSE <<113>>
        final == IF promotes
                    THEN [moved EXCEPT ![to[1]][to[2]] = Piece(promoted_type(prom), piece.color)]
                    ELSE moved
        rec == [moveNumber |-> move_number(hist),
                color |-> piece.color,
                from_square |-> from_sq,
                to_square |-> to_sq,
                capture |-> capture,
                promotion |-> IF promotes THEN Some(prom) ELSE None,
                piece |-> piece]
    IN  [err |-> NoError,
         board |-> final,
         current_turn |-> toggle_turn(turn),
         history |-> append_record(hist, rec),
         record |-> Some(rec)]

\* The part of apply_move after _validate_piece_move has returned: the board
\* is written first, then the promotion code is checked.
apply_validated(b, turn, hist, from_sq, to_sq, promotion, piece, fr, to, capture) ==
    LET moved == execute_move(b, fr, to, piece)
        promotes == piece.type = "pawn" /\ (to[1] = 0 \/ to[1] = 7)
        prom == promotion_code(promotion)
    IN  IF promotes /\ prom \notin PromotionCodes
           THEN Raise(ErrInvalidPromotion, moved, turn, hist)
        ELSE
          LET final == IF promotes
                          THEN [moved EXCEPT ![to[1]][to[2]] = Piece(promoted_type(prom), piece.color)]
                          ELSE moved
              promotion_applied == IF promotes THEN Some(prom) ELSE None
              rec == [moveNumber |-> move_number(hist),
                      color |-> piece.color,
                      from_square |-> from_sq,
                      to_square |-> to_sq,
                      capture |-> capture,
                      promotion |-> promotion_applied,
                      piece |-> piece]
          IN  [err |-> NoError,
               board |-> final,
               current_turn |-> toggle_turn(turn),
               history |-> append_record(hist, rec),
               record |-> Some(rec)]

\* Mutant of check_source: the checks are made in the other order, so an
\* empty source is reported as a wrong turn.
check_source_turn_first(piece, turn) ==
    IF piece.color # turn THEN ErrWrongTurn
    ELSE IF piece = NoPiece THEN ErrEmptySource
    ELSE NoError

\* Mutant of check_source: the turn check is left out.
check_source_no_turn(piece, turn) ==
    IF piece = NoPiece THEN ErrEmptySource ELSE NoError

\* if piece is None: raise ...; if piece.color != self.current_turn: raise ...
check_source(piece, turn) ==
    IF piece = NoPiece THEN ErrEmptySource
    ELSE IF piece.color # turn THEN ErrWrongTurn
    ELSE NoError

\* if target is not None and target.color == piece.color: raise ...
check_target(piece, target) ==
    IF target # NoPiece /\ target.color = piece.color THEN ErrFriendlyCapture
    ELSE NoError

\* apply_move on game (b, turn, status, hist) with arguments from_sq, to_sq,
\* promotion: the error or NoError, the game afterwards, the returned record.
apply_move(b, turn, status, hist, from_sq, to_sq, promotion) ==
    IF status # "in_progress" THEN Raise(ErrNotInProgress, b, turn, hist)
    ELSE IF from_sq = to_sq THEN Raise(ErrSameSquare, b, turn, hist)
    ELSE LET pf == algebraic_to_index(from_sq) IN
    IF pf.err # NoError THEN Raise(pf.err, b, turn, hist)
    ELSE LET pt == algebraic_to_index(to_sq) IN
    IF pt.err # NoError THEN Raise(pt.err, b, turn, hist)
    ELSE LET fr == <<pf.row, pf.col>>
             to == <<pt.row, pt.col>>
             piece == b[fr[1]][fr[2]]
             target == b[to[1]][to[2]]
             capture == target # NoPiece
         IN
    IF check_source(piece, turn) # NoError
        THEN Raise(check_source(piece, turn), b, turn, hist)
    ELSE IF check_target(piece, target) # NoError
        THEN Raise(check_target(piece, target), b, turn, hist)
    ELSE LET v == validate_piece_move(b, piece, fr, to, capture, promotion) IN
    IF v # NoError THEN Raise(v, b, turn, hist)
    ELSE apply_validated(b, turn, hist, from_sq, to_sq, promotion, piece, fr, to, capture)

----------------------------------------------------------------------------
(* ChessGame.restart, get_state, get_history *)

\* _board_to_response: the occupied cells in row-major order, each with
\* its algebraic position.
RECURSIVE board_items(_, _)
board_items(b, k) ==
    IF k = 64 THEN <<>>
    ELSE LET row == k \div 8
             col == k % 8
             rest == board_items(b, k + 1)
         IN  IF b[row][col] = NoPiece THEN rest
             ELSE <<[position |-> index_to_algebraic(row, col).square,
                     piece |-> b[row][col]]>> \o rest

board_to_response(b) == board_items(b, 0)

get_state(b, turn, status) ==
    [board |-> board_to_response(b), current_turn |-> turn, game_status |-> status]

\* MoveRecord.to_dict keeps "promotion" only when it is truthy; here the
\* absent key is None.
to_dict(rec) ==
    [moveNumber |-> rec.moveNumber,
     color |-> rec.color,
     from |-> rec.from_square,
     to |-> rec.to_square,
     capture |-> rec.capture,
     piece |-> rec.piece,
     promotion |-> IF IsNone(rec.promotion) \/ Get(rec.promotion) = <<>>
                      THEN None ELSE rec.promotion]

get_history(hist) == [i \in 1..Len(hist) |-> to_dict(hist[i])]

----------------------------------------------------------------------------
(* Inputs *)

\* The square named by file letter code f and rank digit d, e.g. Sq(101, 2)
\* is "e2".
Sq(f, d) == <<f, 48 + d>>

\* Files a, b, c and A, B; ranks 1..8.
InputFiles == {97, 98, 99}

WellFormedSquares == {Sq(f, d) : f \in InputFiles, d \in 1..8}

\* "A2", "B7"
UpperCaseSquares == {Sq(65, 2), Sq(66, 7)}

\* "i1", "a9", "a", "a22", and two squares whose file letter is outside ASCII:
\* U+0130 (lower-cased to two characters) and U+212A (lower-cased to "k").
MalformedSquares ==
    {<<105, 49>>, <<97, 57>>, <<97>>, <<97, 50, 50>>, <<304, 49>>, <<8490, 49>>}

\* "e2", "e4", "e5"
CentreSquares == {Sq(101, 2), Sq(101, 4), Sq(101, 5)}

\* "h5", "e8"
KingHuntSquares == {Sq(104, 5), Sq(101, 8)}

InputSquares ==
    WellFormedSquares \cup CentreSquares \cup KingHuntSquares
        \cup UpperCaseSquares \cup MalformedSquares

\* "q", "R", "b", "N", "x", "", and U+212A (lower-cased to "k")
PromotionInputs == {<<113>>, <<82>>, <<98>>, <<78>>, <<120>>, <<>>, <<8490>>}

\* Squares from which calls with an explicit promotion code are made.
PromotionSources == {Sq(f, d) : f \in {97, 98}, d \in {1, 2, 3, 7}}

MoveInputs ==
    {<<f, t, None>> : f \in InputSquares, t \in InputSquares}
    \cup {<<f, t, Some(p)>> : f \in PromotionSources, t \in WellFormedSquares,
                              p \in PromotionInputs}

\* Bound on the apply_move calls that write the board after the initial state.
MaxMoves == 1

----------------------------------------------------------------------------
(* Openings: call sequences replayed through apply_move from restart() *)

Call(f1, d1, f2, d2) == <<Sq(f1, d1), Sq(f2, d2), None>>

\* The game after restart().
Restarted ==
    [board |-> InitialBoard, current_turn |-> "white",
     game_status |-> "in_progress", history |-> <<>>]

RECURSIVE Replay(_, _)
Replay(g, calls) ==
    IF calls = <<>> THEN g
    ELSE LET c == Head(calls)
             o == apply_move(g.board, g.current_turn, g.game_status, g.history,
                             c[1], c[2], c[3])
         IN  Replay([board |-> o.board, current_turn |-> o.current_turn,
                     game_status |-> g.game_status, history |-> o.history],
                    Tail(calls))

\* 1. a4 c5 2. a5 c4 3. a6 c3 4. axb7 cxb2 5. Na3 Na6: a white pawn on b7
\* and a black pawn on b2, each one step from its last rank.
PromotionOpening ==
    <<Call(97, 2, 97, 4), Call(99, 7, 99, 5), Call(97, 4, 97, 5), Call(99, 5, 99, 4),
      Call(97, 5, 97, 6), Call(99, 4, 99, 3), Call(97, 6, 98, 7), Call(99, 3, 98, 2),
      Call(98, 1, 97, 3), Call(98, 8, 97, 6)>>

\* 1. c3 Nf6 2. b4 Ng8 3. b5 Nf6 4. b6 Ng8 5. bxc7 Nf6 6. Qb3 Ng8 7. Kd1 Nf6
\* 8. Kc2 Ng8 9. a4 Nf6: the white queen, king, a rook and a bishop have
\* open lines on files a..c.
SliderOpening ==
    <<Call(99, 2, 99, 3), Call(103, 8, 102, 6), Call(98, 2, 98, 4), Call(102, 6, 103, 8),
      Call(98, 4, 98, 5), Call(103, 8, 102, 6), Call(98, 5, 98, 6), Call(102, 6, 103, 8),
      Call(98, 6, 99, 7), Call(103, 8, 102, 6), Call(100, 1, 98, 3), Call(102, 6, 103, 8),
      Call(101, 1, 100, 1), Call(103, 8, 102, 6), Call(100, 1, 99, 2), Call(102, 6, 103, 8),
      Call(97, 2, 97, 4), Call(103, 8, 102, 6)>>

\* 1. e4 f6 2. Qh5 a6 3. Qxe8: the white queen has captured the black king.
KingHuntOpening ==
    <<Call(101, 2, 101, 4), Call(102, 7, 102, 6), Call(100, 1, 104, 5), Call(97, 7, 97, 6),
      Call(104, 5, 101, 8)>>

Openings ==
    {<<>>, PromotionOpening, SubSeq(PromotionOpening, 1, 9),
     SubSeq(PromotionOpening, 1, 6), SliderOpening,
     KingHuntOpening, SubSeq(KingHuntOpening, 1, 4)}

----------------------------------------------------------------------------
(* The state machine.  In Spec the requests are served one at a time: each  *)
(* action is one whole request, from the handler's call to its response.    *)
(* Requests that overlap on worker threads, restart among them, are         *)
(* followed step by step in SpecConcurrent.                                 *)

IdleRequest == [op |-> "idle", from_sq |-> <<>>, to_sq |-> <<>>, promotion |-> None]

IdleResponse ==
    [err |-> NoError, record |-> None, last_move |-> None, state |-> None,
     history |-> None]

\* No request is running step by step, no conversion is being made.
NoThreads == <<>>

\* The thread switches of a run are not counted.
Unbounded == -1

\* No two requests are running step by step.
NoSchedule == [running |-> 0, left |-> Unbounded]

NoConversion == [op |-> "none", arg |-> <<>>, result |-> <<>>]

\* No apply_move call is being followed through its validation.
NoValidation == [pc |-> "none"]

NoSnapshot ==
    [board |-> EmptyBoard, current_turn |-> "none", game_status |-> "none", history |-> <<>>]

Snapshot == [board |-> board, current_turn |-> current_turn,
             game_status |-> game_status, history |-> history]

\* ChessGame.__init__ (GAME = ChessGame()) followed by one of the openings.
Init ==
    \E o \in Openings :
        LET g == Replay(Restarted, o)
        IN  /\ board = g.board
            /\ current_turn = g.current_turn
            /\ game_status = g.game_status
            /\ history = g.history
            /\ request = IdleRequest
            /\ response = IdleResponse
            /\ before = NoSnapshot
            /\ played = 0
            /\ threads = NoThreads
            /\ schedule = NoSchedule
            /\ conversion = NoConversion
            /\ validation = NoValidation

\* The kings on board b.
Kings(b) == {rc \in (0..7) \X (0..7) : b[rc[1]][rc[2]].type = "king"}

\* Mutant of PostMove: the capture of a king ends the game.
PostMove_king_capture_ends_game(from_sq, to_sq, promotion) ==
    /\ LET o == apply_move(board, current_turn, game_status, history,
                           from_sq, to_sq, promotion)
       IN  /\ board' = o.board
           /\ current_turn' = o.current_turn
           /\ history' = o.history
           /\ game_status' = IF Cardinality(Kings(o.board)) < Cardinality(Kings(board))
                                THEN "finished" ELSE game_status
           /\ request' = [op |-> "apply_move", from_sq |-> from_sq, to_sq |-> to_sq,
                          promotion |-> promotion]
           /\ response' =
                 [err |-> o.err, record |-> o.record,
                  last_move |-> IF o.err = NoError THEN Some(to_dict(Get(o.record)))
                                ELSE None,
                  state |-> IF o.err = NoError
                               THEN Some(get_state(o.board, o.current_turn, game_status'))
                               ELSE None,
                  history |-> None]
           /\ before' = Snapshot
           /\ played' = IF o.board # board THEN played + 1 ELSE played
    /\ UNCHANGED <<threads, schedule, conversion, validation>>

\* POST /move: GAME.apply_move(from, to, promotion), then on success
\* GAME.get_state() and record.to_dict().
PostMove(from_sq, to_sq, promotion) ==
    /\ LET o == apply_move(board, current_turn, game_status, history,
                           from_sq, to_sq, promotion)
       IN  /\ board' = o.board
           /\ current_turn' = o.current_turn
           /\ history' = o.history
           /\ game_status' = game_status
           /\ request' = [op |-> "apply_move", from_sq |-> from_sq, to_sq |-> to_sq,
                          promotion |-> promotion]
           /\ response' =
                 [err |-> o.err, record |-> o.record,
                  last_move |-> IF o.err = NoError THEN Some(to_dict(Get(o.record)))
                                ELSE None,
                  state |-> IF o.err = NoError
                               THEN Some(get_state(o.board, o.current_turn, game_status))
                               ELSE None,
                  history |-> None]
           /\ before' = Snapshot
           /\ played' = IF o.board # board THEN played + 1 ELSE played
    /\ UNCHANGED <<threads, schedule, conversion, validation>>

\* Mutant of PostRestart: the turn and the log are not reset.
PostRestart_board_only ==
    /\ request.op = "idle"
    /\ board' = InitialBoard
    /\ game_status' = "in_progress"
    /\ request' = [IdleRequest EXCEPT !.op = "restart"]
    /\ response' = [IdleResponse EXCEPT
                       !.state = Some(get_state(InitialBoard, current_turn, "in_progress")),
                       !.history = Some(<<>>)]
    /\ before' = Snapshot
    /\ UNCHANGED <<current_turn, history, played, threads, schedule, conversion, validation>>

\* POST /restart: GAME.restart(), then GAME.get_state() and the history [].
PostRestart ==
    /\ request.op = "idle"
    /\ board' = InitialBoard
    /\ current_turn' = "white"
    /\ game_status' = "in_progress"
    /\ history' = <<>>
    /\ request' = [IdleRequest EXCEPT !.op = "restart"]
    /\ response' = [IdleResponse EXCEPT
                       !.state = Some(get_state(InitialBoard, "white", "in_progress")),
                       !.history = Some(<<>>)]
    /\ before' = Snapshot
    /\ UNCHANGED <<played, threads, schedule, conversion, validation>>

\* GET /state: GAME.get_state()
GetState ==
    /\ request.op = "idle"
    /\ request' = [IdleRequest EXCEPT !.op = "get_state"]
    /\ response' = [IdleResponse EXCEPT
                       !.state = Some(get_state(board, current_turn, game_status))]
    /\ before' = Snapshot
    /\ UNCHANGED <<board, current_turn, game_status, history, played, threads, schedule, conversion, validation>>

\* GET /history: GAME.get_history()
GetHistory ==
    /\ request.op = "idle"
    /\ request' = [IdleRequest EXCEPT !.op = "get_history"]
    /\ response' = [IdleResponse EXCEPT !.history = Some(get_history(history))]
    /\ before' = Snapshot
    /\ UNCHANGED <<board, current_turn, game_status, history, played, threads, schedule, conversion, validation>>

\* The handler returns (or raises HTTPException): the request is over.
Respond ==
    /\ request.op # "idle"
    /\ request' = IdleRequest
    /\ response' = IdleResponse
    /\ before' = NoSnapshot
    /\ UNCHANGED <<board, current_turn, game_status, history, played, threads, schedule, conversion, validation>>

\* One POST /move with any of the inputs, while the bound allows.
Move ==
    /\ request.op = "idle"
    /\ played < MaxMoves
    /\ \E m \in MoveInputs : PostMove(m[1], m[2], m[3])

Next ==
    \/ Move
    \/ PostRestart
    \/ GetState
    \/ GetHistory
    \/ Respond

Spec == Init /\ [][Next]_vars

----------------------------------------------------------------------------
(* Vocabulary of the properties.  A property looks at a state right after a *)
(* call: request holds the call's arguments, response its outcome, before   *)
(* the game as it was when the call was made.                               *)

Called == request.op = "apply_move"

Succeeded == Called /\ response.err = NoError

Failed == Called /\ response.err # NoError

\* A well-formed square name: a file letter a-h in either case, a rank digit.
IsSquare(sq) ==
    /\ Len(sq) = 2
    /\ (sq[1] \in 97..104 \/ sq[1] \in 65..72)
    /\ sq[2] \in 49..56

\* Row and column of a well-formed square: row = 8 - rank, col = file - 'a'.
RowOf(sq) == 8 - (sq[2] - 48)

ColOf(sq) == IF sq[1] >= 97 THEN sq[1] - 97 ELSE sq[1] - 65

BothSquares == IsSquare(request.from_sq) /\ IsSquare(request.to_sq)

\* The moving piece, the piece on the destination, and the displacement,
\* read from the game before the call (meaningful when BothSquares).
Mover == before.board[RowOf(request.from_sq)][ColOf(request.from_sq)]

Target == before.board[RowOf(request.to_sq)][ColOf(request.to_sq)]

Dr == RowOf(request.to_sq) - RowOf(request.from_sq)

Dc == ColOf(request.to_sq) - ColOf(request.from_sq)

InvalidSquareErrors == {ErrSquareForm, ErrFile, ErrRank}

PieceLegalityErrors ==
    {ErrKnight, ErrBishop, ErrRook, ErrQueen, ErrKing, ErrPathBlocked,
     ErrPawnCapture, ErrPawnSideways, ErrPawnBlocked, ErrPawnMove}

PawnLegalityErrors == {ErrPawnCapture, ErrPawnSideways, ErrPawnBlocked, ErrPawnMove}

\* The call got past checks 1-6: game in progress, distinct well-formed
\* squares, a piece of the side to move on the source, no friendly piece on
\* the destination.
PassedEarlyChecks ==
    /\ Called
    /\ before.game_status = "in_progress"
    /\ request.from_sq # request.to_sq
    /\ BothSquares
    /\ Mover # NoPiece
    /\ Mover.color = before.current_turn
    /\ ~(Target # NoPiece /\ Target.color = Mover.color)

GameUnchanged ==
    /\ board = before.board
    /\ current_turn = before.current_turn
    /\ game_status = before.game_status
    /\ history = before.history

----------------------------------------------------------------------------
(* C1: if apply_move fails with any error, then board, current_turn,       *)
(* game_status and the move log are the same after the call as before it.   *)
(* Stated as in the specification; the engine violates it: a pawn reaching  *)
(* the last rank with an invalid promotion code is moved on the board       *)
(* before the promotion code is rejected.                                   *)
C1_FailedMoveLeavesGameUnchanged == Failed => GameUnchanged

----------------------------------------------------------------------------
(* C2: the turn alternates strictly.  In every state current_turn is white  *)
(* iff the number of successful moves since the restart (the length of the  *)
(* log, which grows by one with each success and only then) is even; a      *)
(* rejected call leaves the turn and the log length alone, a successful     *)
(* call toggles the turn exactly once, and restart gives the turn to white. *)
C2_TurnAlternates ==
    /\ (current_turn = "white") <=> (Len(history) % 2 = 0)
    /\ current_turn \in {"white", "black"}
    /\ Failed => (current_turn = before.current_turn /\ Len(history) = Len(before.history))
    /\ Succeeded => /\ current_turn # before.current_turn
                    /\ Len(history) = Len(before.history) + 1
    /\ request.op = "restart" => (current_turn = "white" /\ Len(history) = 0)

\* A rejected call made after an odd number of successful moves: it is
\* still black's turn.
C2_Witness ==
    /\ Failed
    /\ Len(history) = 9
    /\ current_turn = "black"
    /\ before.current_turn = "black"

----------------------------------------------------------------------------
(* C3: when an input violates several checks at once, the error reported is *)
(* that of the earliest failing check in the order GameNotInProgress,       *)
(* SameSquare, InvalidSquare, EmptySource, WrongTurn, FriendlyCapture, then *)
(* the piece-type legality rule.                                            *)
C3_FirstFailingCheckWins ==
    Called =>
        IF before.game_status # "in_progress" THEN response.err = ErrNotInProgress
        ELSE IF request.from_sq = request.to_sq THEN response.err = ErrSameSquare
        ELSE IF ~BothSquares THEN response.err \in InvalidSquareErrors
        ELSE IF Mover = NoPiece THEN response.err = ErrEmptySource
        ELSE IF Mover.color # before.current_turn THEN response.err = ErrWrongTurn
        ELSE IF Target # NoPiece /\ Target.color = Mover.color
            THEN response.err = ErrFriendlyCapture
        ELSE response.err \in
                 {NoError, ErrPromotionNotAllowed, ErrInvalidPromotion}
                 \cup PieceLegalityErrors

\* An opponent's piece moved onto another piece of that opponent, in a
\* pattern illegal for it: WrongTurn is reported.
C3_Witness ==
    /\ Failed
    /\ BothSquares
    /\ Mover # NoPiece
    /\ Mover.color # before.current_turn
    /\ Target # NoPiece
    /\ Target.color = Mover.color
    /\ Mover.type = "rook"
    /\ Dr # 0
    /\ Dc # 0
    /\ response.err = ErrWrongTurn

----------------------------------------------------------------------------
(* C4: a knight, bishop, rook, queen or king that passes the turn and       *)
(* friendly-capture checks moves iff its displacement matches the pattern   *)
(* of its type and, for bishop, rook and queen only, every cell strictly    *)
(* between source and destination is unoccupied.  So a knight or king move  *)
(* is never rejected for intervening pieces and no slider jumps over one.   *)

BishopPattern == Abs(Dr) = Abs(Dc) /\ Dr # 0

RookPattern == (Dr = 0 /\ Dc # 0) \/ (Dr # 0 /\ Dc = 0)

PiecePattern ==
    CASE Mover.type = "knight" -> <<Abs(Dr), Abs(Dc)>> \in {<<1, 2>>, <<2, 1>>}
      [] Mover.type = "bishop" -> BishopPattern
      [] Mover.type = "rook" -> RookPattern
      [] Mover.type = "queen" -> BishopPattern \/ RookPattern
      [] Mover.type = "king" -> Max2(Abs(Dr), Abs(Dc)) = 1

\* Every cell strictly between source and destination was unoccupied.
PathClear ==
    \A k \in 1..(Max2(Abs(Dr), Abs(Dc)) - 1) :
        before.board[RowOf(request.from_sq) + k * Sign(Dr)]
                    [ColOf(request.from_sq) + k * Sign(Dc)] = NoPiece

C4_PiecePatternsAndClearPaths ==
    (PassedEarlyChecks /\ Mover.type \in {"knight", "bishop", "rook", "queen", "king"})
        => (Succeeded <=>
               (PiecePattern /\ (Mover.type \in {"bishop", "rook", "queen"} => PathClear)))

\* A queen asked to move four rows or more along a line, with an occupied
\* cell in between, is rejected for the blocked path.
C4_Witness ==
    /\ PassedEarlyChecks
    /\ Mover.type = "queen"
    /\ PiecePattern
    /\ Max2(Abs(Dr), Abs(Dc)) >= 4
    /\ ~PathClear
    /\ response.err = ErrPathBlocked

----------------------------------------------------------------------------
(* C5: a non-capturing pawn move (destination empty, no promotion code) by  *)
(* the side to move succeeds iff dc = 0 and either dr = direction, or the   *)
(* pawn is on its start row, dr = 2 * direction and the intermediate cell   *)
(* is empty too; every other non-capturing pawn move is rejected.           *)

Direction == IF Mover.color = "white" THEN -1 ELSE 1

StartRow == IF Mover.color = "white" THEN 6 ELSE 1

C5_PawnAdvance ==
    (PassedEarlyChecks /\ Mover.type = "pawn" /\ Target = NoPiece
        /\ IsNone(request.promotion))
        => (Succeeded <=>
               /\ Dc = 0
               /\ \/ Dr = Direction
                  \/ /\ RowOf(request.from_sq) = StartRow
                     /\ Dr = 2 * Direction
                     /\ before.board[RowOf(request.from_sq) + Direction]
                                    [ColOf(request.from_sq)] = NoPiece)

\* e2-e5 from the start position: three rows along the file, rejected.
C5_Witness ==
    /\ Failed
    /\ before.history = <<>>
    /\ request.from_sq = Sq(101, 2)
    /\ request.to_sq = Sq(101, 5)
    /\ IsNone(request.promotion)
    /\ response.err = ErrPawnMove
    /\ GameUnchanged

----------------------------------------------------------------------------
(* C6: a pawn move onto a square occupied by an enemy piece is legal iff    *)
(* dr = direction and |dc| = 1 (never straight ahead); a pawn changes file  *)
(* only when its destination holds an enemy piece; and in every successful  *)
(* move the only piece removed from the board is the one that stood on the  *)
(* destination square (no en-passant).                                      *)

PawnCapturePattern == Dr = Direction /\ Abs(Dc) = 1

C6_PawnCaptures ==
    /\ (PassedEarlyChecks /\ Mover.type = "pawn" /\ Target # NoPiece) =>
          /\ Succeeded => PawnCapturePattern
          /\ PawnCapturePattern =>
                /\ response.err \notin PawnLegalityErrors
                /\ IsNone(request.promotion) => Succeeded
          /\ ~PawnCapturePattern =>
                response.err \in {ErrPawnCapture, ErrPromotionNotAllowed}
    /\ (Succeeded /\ Mover.type = "pawn" /\ Dc # 0) =>
          (Target # NoPiece /\ Target.color # Mover.color)
    /\ Succeeded =>
          /\ board[RowOf(request.from_sq)][ColOf(request.from_sq)] = NoPiece
          /\ board[RowOf(request.to_sq)][ColOf(request.to_sq)] # NoPiece
          /\ \A r \in 0..7 : \A c \in 0..7 :
                (<<r, c>> # <<RowOf(request.from_sq), ColOf(request.from_sq)>>
                 /\ <<r, c>> # <<RowOf(request.to_sq), ColOf(request.to_sq)>>)
                    => board[r][c] = before.board[r][c]

\* A pawn asked to capture the enemy piece straight ahead of it is rejected.
C6_Witness ==
    /\ PassedEarlyChecks
    /\ Mover.type = "pawn"
    /\ Target # NoPiece
    /\ Dc = 0
    /\ Dr = Direction
    /\ IsNone(request.promotion)
    /\ response.err = ErrPawnCapture

----------------------------------------------------------------------------
(* C7: when a legal pawn move lands on row 0 or row 7, the call succeeds    *)
(* for a code among q, r, b, n in either case or an omitted code; the       *)
(* destination then holds a piece of the pawn's color of the type the code  *)
(* names (queen when omitted), the returned record has promotion equal to   *)
(* the lowercase code ("q" by default) and its piece snapshot is still      *)
(* (pawn, color).  For every other successful move the record's promotion   *)
(* is absent.                                                               *)

\* The lowercase code a promotion argument names: q, r, b, n for the codes
\* in either case, q for an omitted one, <<>> for anything else.
NamedCode(promotion) ==
    IF IsNone(promotion) THEN <<113>>
    ELSE CASE Get(promotion) \in {<<113>>, <<81>>} -> <<113>>
           [] Get(promotion) \in {<<114>>, <<82>>} -> <<114>>
           [] Get(promotion) \in {<<98>>, <<66>>} -> <<98>>
           [] Get(promotion) \in {<<110>>, <<78>>} -> <<110>>
           [] OTHER -> <<>>

NamedType(code) ==
    CASE code = <<113>> -> "queen"
      [] code = <<114>> -> "rook"
      [] code = <<98>> -> "bishop"
      [] code = <<110>> -> "knight"

ReachesLastRank == Mover.type = "pawn" /\ RowOf(request.to_sq) \in {0, 7}

\* The pawn rule for a move onto the last rank: one step diagonally forward
\* onto an enemy piece, or one step straight onto an empty cell.
LegalLastRankStep ==
    IF Target # NoPiece THEN PawnCapturePattern ELSE (Dc = 0 /\ Dr = Direction)

C7_Promotion ==
    /\ (PassedEarlyChecks /\ ReachesLastRank /\ LegalLastRankStep
          /\ NamedCode(request.promotion) # <<>>) => Succeeded
    /\ (Succeeded /\ ReachesLastRank /\ NamedCode(request.promotion) # <<>>) =>
          LET code == NamedCode(request.promotion)
              rec == Get(response.record)
          IN  /\ board[RowOf(request.to_sq)][ColOf(request.to_sq)]
                    = Piece(NamedType(code), Mover.color)
              /\ rec.promotion = Some(code)
              /\ rec.piece = Piece("pawn", Mover.color)
              /\ history[Len(history)] = rec
    /\ (Succeeded /\ ~ReachesLastRank) => IsNone(Get(response.record).promotion)

\* A black pawn promoted to a knight with the uppercase code "N", capturing.
C7_Witness ==
    /\ Succeeded
    /\ ReachesLastRank
    /\ Mover.color = "black"
    /\ Target # NoPiece
    /\ request.promotion = Some(<<78>>)
    /\ board[RowOf(request.to_sq)][ColOf(request.to_sq)] = Piece("knight", "black")
    /\ Get(response.record).promotion = Some(<<110>>)

----------------------------------------------------------------------------
(* C8, as stated: apply_move called with an explicit promotion code that is *)
(* not one of q, r, b, n (case-insensitive) fails with InvalidPromotion,    *)
(* for every moving piece and every destination, once the checks before     *)
(* piece legality have passed.  The engine does not behave so: it looks at  *)
(* the code only for a pawn, and validates it only on the last rank.        *)

\* An explicit, non-empty code outside q, r, b, n in either case.
ExplicitInvalidCode ==
    /\ ~IsNone(request.promotion)
    /\ Get(request.promotion) # <<>>
    /\ NamedCode(request.promotion) = <<>>

C8_InvalidCodeAlwaysRejected ==
    (PassedEarlyChecks /\ ExplicitInvalidCode) => response.err = ErrInvalidPromotion

(* C8, amended: with an explicit, non-empty promotion code that is not one  *)
(* of q, r, b, n (case-insensitive), a call that passed the checks before   *)
(* piece legality fails with InvalidPromotion exactly when the mover is a   *)
(* pawn making a legal pawn step onto row 0 or 7; a pawn sent to any other  *)
(* row fails with PromotionNotAllowed, so for a pawn the call never         *)
(* succeeds; for every other piece the code is ignored and the call         *)
(* succeeds or fails by that piece's pattern and path alone.                *)
C8_InvalidCodeRejectedForPromotingPawn ==
    (PassedEarlyChecks /\ ExplicitInvalidCode) =>
        /\ (response.err = ErrInvalidPromotion) <=> (ReachesLastRank /\ LegalLastRankStep)
        /\ Mover.type = "pawn" =>
              /\ Failed
              /\ RowOf(request.to_sq) \notin {0, 7} => response.err = ErrPromotionNotAllowed
        /\ Mover.type # "pawn" =>
              (Succeeded <=>
                  (PiecePattern /\ (Mover.type \in {"bishop", "rook", "queen"} => PathClear)))

\* A pawn stepping straight onto its last rank with the code "x".
C8_Witness ==
    /\ PassedEarlyChecks
    /\ ReachesLastRank
    /\ Target = NoPiece
    /\ request.promotion = Some(<<120>>)
    /\ response.err = ErrInvalidPromotion

----------------------------------------------------------------------------
(* C9, as stated: for a pawn of the side to move, apply_move with an        *)
(* explicit promotion code and a destination that is not on row 0 or row 7  *)
(* fails with PromotionNotAllowed.  It does not when the destination holds  *)
(* a piece of the pawn's own color: FriendlyCapture is checked first.       *)

PawnWithCodeOffLastRank ==
    /\ Called
    /\ BothSquares
    /\ request.to_sq # request.from_sq
    /\ Mover.type = "pawn"
    /\ Mover.color = before.current_turn
    /\ ~IsNone(request.promotion)
    /\ RowOf(request.to_sq) \notin {0, 7}

C9_CodeOffLastRankRejected ==
    PawnWithCodeOffLastRank => response.err = ErrPromotionNotAllowed

(* C9, amended: for a pawn of the side to move, apply_move with an explicit *)
(* promotion code and a destination that is not on row 0 or row 7 and does  *)
(* not hold a piece of the pawn's own color (the pawn itself included)      *)
(* fails with PromotionNotAllowed, ahead of every pawn-specific legality    *)
(* error the same move would also trigger.                                  *)
C9_CodeOffLastRankRejectedUnlessFriendly ==
    (PawnWithCodeOffLastRank /\ ~(Target # NoPiece /\ Target.color = Mover.color))
        => response.err = ErrPromotionNotAllowed

\* A pawn sent straight onto an enemy piece (an illegal pawn capture) with a
\* promotion code: PromotionNotAllowed is what is reported.
C9_Witness ==
    /\ PawnWithCodeOffLastRank
    /\ Target # NoPiece
    /\ Target.color # Mover.color
    /\ Dc = 0
    /\ response.err = ErrPromotionNotAllowed

----------------------------------------------------------------------------
(* C10, as stated: a call whose source square holds no piece fails with the *)
(* empty-source reason regardless of the destination given.  It does not    *)
(* when the destination is malformed or equal to the source: those checks   *)
(* come first.                                                              *)

EmptySourceCall ==
    /\ Called
    /\ IsSquare(request.from_sq)
    /\ Mover = NoPiece

C10_EmptySourceWhateverDestination ==
    EmptySourceCall => response.err = ErrEmptySource

(* C10, amended: a call whose source square holds no piece fails with the   *)
(* empty-source reason whenever the destination is a well-formed square     *)
(* name that differs from the source string, whatever the destination's     *)
(* contents.                                                                *)
C10_EmptySourceWellFormedDestination ==
    (EmptySourceCall /\ IsSquare(request.to_sq) /\ request.to_sq # request.from_sq)
        => (response.err = ErrEmptySource /\ GameUnchanged)

\* An empty source and a destination that holds a piece of the side to move.
C10_Witness ==
    /\ EmptySourceCall
    /\ IsSquare(request.to_sq)
    /\ Target # NoPiece
    /\ Target.color = before.current_turn
    /\ response.err = ErrEmptySource

----------------------------------------------------------------------------
(* C11: an apply_move call whose from and to name the same board square     *)
(* (the same row and column, also when the two names differ in the case of  *)
(* the file letter, as "a2" and "A2") fails with SameSquare.  Stated as in  *)
(* the specification; the engine violates it: it compares the two strings   *)
(* as given, before either is lower-cased, so "a2" to "A2" gets past the    *)
(* same-square check and is rejected later for another reason.              *)
SameBoardSquare ==
    /\ BothSquares
    /\ RowOf(request.from_sq) = RowOf(request.to_sq)
    /\ ColOf(request.from_sq) = ColOf(request.to_sq)

C11_SameSquareWhateverCase ==
    (Called /\ SameBoardSquare) => response.err = ErrSameSquare

----------------------------------------------------------------------------
(* C12: the move log is append-only between restarts.  After a successful   *)
(* apply_move the log is the log before the call with exactly one record,   *)
(* the returned one, added at the end, so every earlier record is unchanged *)
(* and in the same position; after a rejected apply_move, get_state or      *)
(* get_history the log is the log before the call; after restart it is the  *)
(* empty sequence, and no other operation makes it shorter.                 *)
LogIsPrefixOf(old, new) ==
    /\ Len(old) <= Len(new)
    /\ \A i \in 1..Len(old) : new[i] = old[i]

C12_LogAppendOnly ==
    /\ Succeeded =>
          /\ Len(history) = Len(before.history) + 1
          /\ LogIsPrefixOf(before.history, history)
          /\ history[Len(history)] = Get(response.record)
    /\ (Failed \/ request.op \in {"get_state", "get_history"}) =>
          history = before.history
    /\ request.op = "restart" => history = <<>>
    /\ (request.op # "idle" /\ Len(history) < Len(before.history)) =>
          request.op = "restart"

\* A move accepted on a log that already holds records.
C12_Witness ==
    /\ Succeeded
    /\ Len(before.history) >= 2
    /\ Len(history) = Len(before.history) + 1
    /\ history[1] = before.history[1]
    /\ history[1] # history[Len(history)]

----------------------------------------------------------------------------
(* C13: in every state the i-th record of the move log, i counted from 0,   *)
(* has moveNumber = floor(i / 2) + 1 (the sequence 1, 1, 2, 2, 3, 3, ...),  *)
(* and the record a successful call returns carries the number computed     *)
(* from the length of the log before the append; a rejected call changes    *)
(* neither the log nor the number the next record will get.                 *)
C13_MoveNumbers ==
    /\ \A k \in 1..Len(history) : history[k].moveNumber = ((k - 1) \div 2) + 1
    /\ Succeeded =>
          Get(response.record).moveNumber = (Len(before.history) \div 2) + 1
    /\ Failed => (Len(history) \div 2) + 1 = (Len(before.history) \div 2) + 1

\* A move accepted as the second half-move of a round, and one accepted as
\* the first half-move of a later round.
C13_Witness ==
    /\ Succeeded
    /\ Len(history) >= 4
    /\ history[Len(history)].moveNumber = history[Len(history) - 1].moveNumber
    /\ history[Len(history) - 1].moveNumber = history[Len(history) - 2].moveNumber + 1

----------------------------------------------------------------------------
(* C14: restart, called in any state, yields exactly the initial state:     *)
(* rows 0 and 7 hold rook, knight, bishop, queen, king, bishop, knight,     *)
(* rook of black and of white, rows 1 and 6 are full pawn rows of black and *)
(* of white, rows 2-5 are empty (32 pieces in all), current_turn is white,  *)
(* game_status is in_progress and the log is empty.  The state after        *)
(* restart does not depend on the state before it, so a second restart      *)
(* gives the same state as the first.                                       *)
StandardBackRankType(col) ==
    CASE col \in {0, 7} -> "rook"
      [] col \in {1, 6} -> "knight"
      [] col \in {2, 5} -> "bishop"
      [] col = 3 -> "queen"
      [] col = 4 -> "king"

StandardCell(row, col) ==
    CASE row = 0 -> [type |-> StandardBackRankType(col), color |-> "black"]
      [] row = 1 -> [type |-> "pawn", color |-> "black"]
      [] row = 6 -> [type |-> "pawn", color |-> "white"]
      [] row = 7 -> [type |-> StandardBackRankType(col), color |-> "white"]
      [] OTHER -> NoPiece

PieceCount(b) ==
    Cardinality({rc \in (0..7) \X (0..7) : b[rc[1]][rc[2]] # NoPiece})

C14_RestartGivesInitialState ==
    request.op = "restart" =>
        /\ \A row \in 0..7 : \A col \in 0..7 : board[row][col] = StandardCell(row, col)
        /\ PieceCount(board) = 32
        /\ current_turn = "white"
        /\ game_status = "in_progress"
        /\ history = <<>>
        /\ response.err = NoError

\* restart in a game with moves played, captures made and black to move.
C14_Witness ==
    /\ request.op = "restart"
    /\ before.current_turn = "black"
    /\ Len(before.history) >= 3
    /\ PieceCount(before.board) < 32
    /\ board # before.board

----------------------------------------------------------------------------
(* Two requests on GAME without serialization.  The handlers of main.py are *)
(* plain defs, so the server runs each request on a worker thread, and the  *)
(* interpreter can switch threads between any two accesses to the shared    *)
(* game; no method takes a lock.  One step is one read or write of          *)
(* game_status, board, history or current_turn, together with the           *)
(* computation on locals that follows it: _validate_piece_move reads one    *)
(* cell per step, and so does _board_to_response, which get_state runs for  *)
(* the response of every handler.  A statement that indexes self.board      *)
(* reads the attribute once, so it acts on the board list that is bound     *)
(* when the step is taken.  response holds one response per thread.         *)

Threads == {1, 2}

\* The largest number of times a running handler is switched out in favour
\* of the other thread, in the scenarios where the switches are counted.
MaxPreemptions == 2

\* The locals of one post_move request; pc is the next access it will make,
\* call tells where its call on GAME stands.
NewFrame(from_sq, to_sq, promotion) ==
    [op |-> "move", pc |-> "start", call |-> "pending",
     from_sq |-> from_sq, to_sq |-> to_sq, promotion |-> promotion,
     fr |-> <<0, 0>>, to |-> <<0, 0>>, piece |-> NoPiece, capture |-> FALSE,
     cursor |-> <<0, 0>>, step |-> <<0, 0>>, cells |-> <<>>,
     prom |-> None, record |-> None, seen_turn |-> "none", err |-> NoError,
     overlapped |-> FALSE, placed |-> 0,
     read |-> 0, items |-> <<>>, state_turn |-> "none",
     held |-> None, listed |-> <<>>]

\* The locals of one post_restart request: placed counts the cells it has
\* filled.
RestartFrame == [NewFrame(<<>>, <<>>, None) EXCEPT !.op = "restart"]

\* The locals of one GET /state request: read counts the cells it has read.
StateFrame == [NewFrame(<<>>, <<>>, None) EXCEPT !.op = "state", !.pc = "read_cell"]

\* The locals of one GET /history request.
HistoryFrame == [NewFrame(<<>>, <<>>, None) EXCEPT !.op = "history", !.pc = "load_history"]

Running(t) == threads[t].call = "running"

Done(t) == threads[t].call \in {"returned", "raised"}

Other(t) == CHOOSE u \in Threads : u # t

\* The interpreter lets thread t take the next step.  Where the switches are
\* counted, taking the processor from a handler that has begun and has not
\* responded uses up one of the switches left.
Scheduled(t) ==
    IF schedule.left = Unbounded THEN schedule' = schedule
    ELSE LET u == schedule.running
             preempts == u \notin {0, t} /\ threads[u].pc # "responded"
         IN  /\ preempts => schedule.left > 0
             /\ schedule' = [running |-> t,
                             left |-> IF preempts THEN schedule.left - 1
                                      ELSE schedule.left]

\* raise IllegalMoveError(e)
ThreadRaise(t, e) ==
    [threads EXCEPT ![t].pc = "raised", ![t].call = "raised", ![t].err = e]

\* Lines 120-127: game_status is read; the arguments are compared and parsed.
StartCall(t) ==
    /\ threads[t].op = "move"
    /\ threads[t].pc = "start"
    /\ Scheduled(t)
    /\ LET f == threads[t]
           pf == algebraic_to_index(f.from_sq)
           pt == algebraic_to_index(f.to_sq)
           seen == [threads EXCEPT ![t].overlapped = Running(Other(t))]
           raised(e) == [seen EXCEPT ![t].pc = "raised", ![t].call = "raised",
                                     ![t].err = e]
       IN  threads' =
             IF game_status # "in_progress" THEN raised(ErrNotInProgress)
             ELSE IF f.from_sq = f.to_sq THEN raised(ErrSameSquare)
             ELSE IF pf.err # NoError THEN raised(pf.err)
             ELSE IF pt.err # NoError THEN raised(pt.err)
             ELSE [seen EXCEPT ![t].pc = "read_source", ![t].call = "running",
                               ![t].fr = <<pf.row, pf.col>>,
                               ![t].to = <<pt.row, pt.col>>]
    /\ UNCHANGED <<board, current_turn, game_status, history, request, response,
                   before, played, conversion, validation>>

\* Lines 129-131: piece = self.board[fr[0]][fr[1]]
ReadSource(t) ==
    /\ threads[t].pc = "read_source"
    /\ Scheduled(t)
    /\ LET f == threads[t]
           piece == board[f.fr[1]][f.fr[2]]
       IN  threads' =
             IF piece = NoPiece THEN ThreadRaise(t, ErrEmptySource)
             ELSE [threads EXCEPT ![t].pc = "read_turn", ![t].piece = piece]
    /\ UNCHANGED <<board, current_turn, game_status, history, request, response,
                   before, played, conversion, validation>>

\* Lines 132-133: piece.color != self.current_turn
CheckTurn(t) ==
    /\ threads[t].pc = "read_turn"
    /\ Scheduled(t)
    /\ LET e == check_source(threads[t].piece, current_turn)
       IN  threads' =
             IF e # NoError THEN ThreadRaise(t, e)
             ELSE [threads EXCEPT ![t].pc = "read_target"]
    /\ UNCHANGED <<board, current_turn, game_status, history, request, response,
                   before, played, conversion, validation>>

\* Lines 135-139: target = self.board[to[0]][to[1]]; capture
ReadTarget(t) ==
    /\ threads[t].pc = "read_target"
    /\ Scheduled(t)
    /\ LET f == threads[t]
           target == board[f.to[1]][f.to[2]]
           e == check_target(f.piece, target)
       IN  threads' =
             IF e # NoError THEN ThreadRaise(t, e)
             ELSE [threads EXCEPT ![t].pc = "validate", ![t].capture = target # NoPiece]
    /\ UNCHANGED <<board, current_turn, game_status, history, request, response,
                   before, played, conversion, validation>>

\* _validate_pawn_move up to its first read of the board: the error it
\* raises on its arguments alone, and otherwise the cells it will read, in
\* the order of lines 279, 286 and 288.
pawn_reads(piece, fr, to, dr, dc, capture, promotion) ==
    LET direction == IF piece.color = "white" THEN -1 ELSE 1
        start_row == IF piece.color = "white" THEN 6 ELSE 1
        raised(e) == [err |-> e, cells |-> <<>>]
    IN  IF ~IsNone(promotion) /\ to[1] \notin {0, 7} THEN raised(ErrPromotionNotAllowed)
        ELSE IF capture
            THEN raised(IF dr # direction \/ Abs(dc) # 1 THEN ErrPawnCapture ELSE NoError)
        ELSE IF dc # 0 THEN raised(ErrPawnSideways)
        ELSE IF dr = direction THEN [err |-> NoError, cells |-> <<to>>]
        ELSE IF fr[1] = start_row /\ dr = 2 * direction
            THEN [err |-> NoError, cells |-> <<<<fr[1] + direction, fr[2]>>, to>>]
        ELSE raised(ErrPawnMove)

\* Line 141, self._validate_piece_move(piece, fr, to, capture, promotion), up
\* to its first read of the board: the knight and king rules in full, the
\* pawn rules on the arguments, the pattern check of a bishop, rook or queen
\* and lines 296-304, which set the loop cursor next to the source and
\* compare it with the destination.
ValidateMove(t) ==
    /\ threads[t].pc = "validate"
    /\ Scheduled(t)
    /\ LET f == threads[t]
           dr == f.to[1] - f.fr[1]
           dc == f.to[2] - f.fr[2]
           first == <<f.fr[1] + Sign(dr), f.fr[2] + Sign(dc)>>
           pawn == pawn_reads(f.piece, f.fr, f.to, dr, dc, f.capture, f.promotion)
           e == CASE f.piece.type = "pawn" -> pawn.err
                  [] f.piece.type = "knight" -> validate_knight(dr, dc)
                  [] f.piece.type = "king" -> validate_king(dr, dc)
                  [] f.piece.type \in {"bishop", "rook", "queen"} ->
                        slider_pattern(f.piece.type, dr, dc)
                  [] OTHER -> ErrUnknownPiece
       IN  threads' =
             IF e # NoError THEN ThreadRaise(t, e)
             ELSE IF f.piece.type = "pawn" /\ pawn.cells # <<>>
                THEN [threads EXCEPT ![t].pc = "read_pawn", ![t].cells = pawn.cells]
             ELSE IF f.piece.type \in {"bishop", "rook", "queen"} /\ first # f.to
                THEN [threads EXCEPT ![t].pc = "loop", ![t].cursor = first,
                                     ![t].step = <<Sign(dr), Sign(dc)>>]
             ELSE [threads EXCEPT ![t].pc = "write_target"]
    /\ UNCHANGED <<board, current_turn, game_status, history, request, response,
                   before, played, conversion, validation>>

\* Lines 279, 286, 288: one read of self.board by _validate_pawn_move, of the
\* destination of a single step, or of the intermediate cell and then the
\* destination of a double step.
ReadPawnCell(t) ==
    /\ threads[t].pc = "read_pawn"
    /\ Scheduled(t)
    /\ LET f == threads[t]
           cell == Head(f.cells)
       IN  threads' =
             IF CellAt(board, cell[1], cell[2]) # NoPiece
                THEN ThreadRaise(t, ErrPawnBlocked)
             ELSE IF Tail(f.cells) = <<>>
                THEN [threads EXCEPT ![t].pc = "write_target", ![t].cells = <<>>]
             ELSE [threads EXCEPT ![t].cells = Tail(f.cells)]
    /\ UNCHANGED <<board, current_turn, game_status, history, request, response,
                   before, played, conversion, validation>>

\* Lines 304-308, one iteration of the while loop of _require_clear_path:
\* self.board[r][c] is read, the cursor moves one step and is compared with
\* the destination.
ReadPathCell(t) ==
    /\ threads[t].pc = "loop"
    /\ Scheduled(t)
    /\ LET f == threads[t]
           r == f.cursor[1]
           c == f.cursor[2]
           next == <<r + f.step[1], c + f.step[2]>>
       IN  threads' =
             IF ~(InRange(r) /\ InRange(c)) THEN ThreadRaise(t, IndexError)
             ELSE IF CellAt(board, r, c) # NoPiece THEN ThreadRaise(t, ErrPathBlocked)
             ELSE IF next = f.to
                THEN [threads EXCEPT ![t].pc = "write_target", ![t].cursor = next]
             ELSE [threads EXCEPT ![t].cursor = next]
    /\ UNCHANGED <<board, current_turn, game_status, history, request, response,
                   before, played, conversion, validation>>

\* Line 144: self.board[to[0]][to[1]] = piece
WriteTarget(t) ==
    /\ threads[t].pc = "write_target"
    /\ Scheduled(t)
    /\ LET f == threads[t]
       IN  board' = [board EXCEPT ![f.to[1]][f.to[2]] = f.piece]
    /\ threads' = [threads EXCEPT ![t].pc = "clear_source"]
    /\ UNCHANGED <<current_turn, game_status, history, request, response,
                   before, played, conversion, validation>>

\* Mutant of ClearSource: the source cell is left as it is.
ClearSource_skipped(t) ==
    /\ threads[t].pc = "clear_source"
    /\ Scheduled(t)
    /\ threads' = [threads EXCEPT ![t].pc = "read_length"]
    /\ UNCHANGED <<board, current_turn, game_status, history, request, response,
                   before, played, conversion, validation>>

\* Line 145: self.board[fr[0]][fr[1]] = None; then lines 147-152 on locals:
\* whether the pawn promotes, and the promotion code.
ClearSource(t) ==
    /\ threads[t].pc = "clear_source"
    /\ Scheduled(t)
    /\ LET f == threads[t]
           promotes == f.piece.type = "pawn" /\ (f.to[1] = 0 \/ f.to[1] = 7)
           prom == promotion_code(f.promotion)
       IN  /\ board' = [board EXCEPT ![f.fr[1]][f.fr[2]] = NoPiece]
           /\ threads' =
                IF promotes /\ prom \notin PromotionCodes
                   THEN ThreadRaise(t, ErrInvalidPromotion)
                ELSE IF promotes
                   THEN [threads EXCEPT ![t].pc = "write_promotion", ![t].prom = Some(prom)]
                ELSE [threads EXCEPT ![t].pc = "read_length"]
    /\ UNCHANGED <<current_turn, game_status, history, request, response,
                   before, played, conversion, validation>>

\* Lines 153-160: self.board[to[0]][to[1]] = Piece(type=new_type, color=piece.color)
WritePromotion(t) ==
    /\ threads[t].pc = "write_promotion"
    /\ Scheduled(t)
    /\ LET f == threads[t]
       IN  board' = [board EXCEPT ![f.to[1]][f.to[2]] =
                         Piece(promoted_type(Get(f.prom)), f.piece.color)]
    /\ threads' = [threads EXCEPT ![t].pc = "read_length"]
    /\ UNCHANGED <<current_turn, game_status, history, request, response,
                   before, played, conversion, validation>>

\* Lines 163-172: move_number from len(self.history); the record is built.
ReadLength(t) ==
    /\ threads[t].pc = "read_length"
    /\ Scheduled(t)
    /\ LET f == threads[t]
           rec == [moveNumber |-> move_number(history),
                   color |-> f.piece.color,
                   from_square |-> f.from_sq,
                   to_square |-> f.to_sq,
                   capture |-> f.capture,
                   promotion |-> f.prom,
                   piece |-> f.piece]
       IN  threads' = [threads EXCEPT ![t].pc = "append", ![t].record = Some(rec)]
    /\ UNCHANGED <<board, current_turn, game_status, history, request, response,
                   before, played, conversion, validation>>

\* Line 173: self.history.append(record)
AppendRecord(t) ==
    /\ threads[t].pc = "append"
    /\ Scheduled(t)
    /\ history' = append_record(history, Get(threads[t].record))
    /\ threads' = [threads EXCEPT ![t].pc = "read_toggle"]
    /\ UNCHANGED <<board, current_turn, game_status, request, response,
                   before, played, conversion, validation>>

\* Line 176, right-hand side: self.current_turn is read.
ReadTurn(t) ==
    /\ threads[t].pc = "read_toggle"
    /\ Scheduled(t)
    /\ threads' = [threads EXCEPT ![t].pc = "write_toggle", ![t].seen_turn = current_turn]
    /\ UNCHANGED <<board, current_turn, game_status, history, request, response,
                   before, played, conversion, validation>>

\* Line 176, assignment, and line 177: return record.  post_move goes on to
\* GAME.get_state() (main.py, line 111).
WriteTurn(t) ==
    /\ threads[t].pc = "write_toggle"
    /\ Scheduled(t)
    /\ current_turn' = toggle_turn(threads[t].seen_turn)
    /\ threads' = [threads EXCEPT ![t].pc = "read_cell", ![t].call = "returned"]
    /\ UNCHANGED <<board, game_status, history, request, response,
                   before, played, conversion, validation>>

\* The cells restart fills, in the order of its four loops: rows 0, 1, 6 and
\* 7, each from column 0 to column 7.
RestartRows == <<0, 1, 6, 7>>

RestartCell(k) == <<RestartRows[(k \div 8) + 1], k % 8>>

\* Line 81: self.board = [[None for _ in range(8)] for _ in range(8)]
RestartBoard(t) ==
    /\ threads[t].op = "restart"
    /\ threads[t].pc = "start"
    /\ Scheduled(t)
    /\ board' = EmptyBoard
    /\ threads' = [threads EXCEPT ![t].pc = "set_turn", ![t].call = "running",
                                  ![t].overlapped = Running(Other(t))]
    /\ UNCHANGED <<current_turn, game_status, history, request, response,
                   before, played, conversion, validation>>

\* Line 82: self.current_turn = "white"
RestartTurn(t) ==
    /\ threads[t].pc = "set_turn"
    /\ Scheduled(t)
    /\ current_turn' = "white"
    /\ threads' = [threads EXCEPT ![t].pc = "set_status"]
    /\ UNCHANGED <<board, game_status, history, request, response,
                   before, played, conversion, validation>>

\* Line 83: self.game_status = "in_progress"
RestartStatus(t) ==
    /\ threads[t].pc = "set_status"
    /\ Scheduled(t)
    /\ game_status' = "in_progress"
    /\ threads' = [threads EXCEPT ![t].pc = "set_history"]
    /\ UNCHANGED <<board, current_turn, history, request, response,
                   before, played, conversion, validation>>

\* Line 84: self.history = [].  A get_history call of the other thread that
\* is iterating over the list bound so far keeps that list.
RestartHistory(t) ==
    /\ threads[t].pc = "set_history"
    /\ Scheduled(t)
    /\ history' = <<>>
    /\ LET u == Other(t)
           keeps == threads[u].pc = "read_record" /\ IsNone(threads[u].held)
       IN  threads' = [threads EXCEPT ![t].pc = "place",
                                      ![u].held = IF keeps THEN Some(history) ELSE @]
    /\ UNCHANGED <<board, current_turn, game_status, request, response,
                   before, played, conversion, validation>>

\* Lines 91-100: one assignment self.board[row][col] = Piece(...) of the four
\* loops; restart returns after the last one, and post_restart goes on to
\* GAME.get_state() (main.py, line 150).
PlacePiece(t) ==
    /\ threads[t].pc = "place"
    /\ Scheduled(t)
    /\ LET k == threads[t].placed
           cell == RestartCell(k)
       IN  /\ board' = [board EXCEPT ![cell[1]][cell[2]] = InitialBoard[cell[1]][cell[2]]]
           /\ threads' =
                IF k = 31
                   THEN [threads EXCEPT ![t].placed = k + 1, ![t].pc = "read_cell",
                                        ![t].call = "returned"]
                ELSE [threads EXCEPT ![t].placed = k + 1]
    /\ UNCHANGED <<current_turn, game_status, history, request, response,
                   before, played, conversion, validation>>

\* main.py, lines 108-109: the error of apply_move becomes the response.
RespondError(t) ==
    /\ threads[t].pc = "raised"
    /\ Scheduled(t)
    /\ threads' = [threads EXCEPT ![t].pc = "responded"]
    /\ response' = [response EXCEPT ![t] = [IdleResponse EXCEPT !.err = threads[t].err]]
    /\ UNCHANGED <<board, current_turn, game_status, history, request,
                   before, played, conversion, validation>>

\* get_state, line 105, one iteration of the loops of _board_to_response
\* (lines 190-196): piece = self.board[row][col]; an occupied cell is
\* appended to the items with its algebraic position.
ReadCell(t) ==
    /\ threads[t].pc = "read_cell"
    /\ Scheduled(t)
    /\ LET f == threads[t]
           row == f.read \div 8
           col == f.read % 8
           piece == board[row][col]
           item == [position |-> index_to_algebraic(row, col).square, piece |-> piece]
       IN  threads' =
             [threads EXCEPT
                 ![t].read = f.read + 1,
                 ![t].items = IF piece = NoPiece THEN @ ELSE Append(@, item),
                 ![t].call = IF f.op = "state" THEN "running" ELSE @,
                 ![t].pc = IF f.read = 63 THEN "read_state_turn" ELSE @]
    /\ UNCHANGED <<board, current_turn, game_status, history, request, response,
                   before, played, conversion, validation>>

\* get_state, line 106: "current_turn": self.current_turn
ReadStateTurn(t) ==
    /\ threads[t].pc = "read_state_turn"
    /\ Scheduled(t)
    /\ threads' = [threads EXCEPT ![t].pc = "read_state_status",
                                  ![t].state_turn = current_turn]
    /\ UNCHANGED <<board, current_turn, game_status, history, request, response,
                   before, played, conversion, validation>>

\* get_state, line 107: "game_status": self.game_status; get_state returns
\* and the handler makes its response (main.py, lines 74, 112-115, 150).
ReadStateStatus(t) ==
    /\ threads[t].pc = "read_state_status"
    /\ Scheduled(t)
    /\ LET f == threads[t]
           state == [board |-> f.items, current_turn |-> f.state_turn,
                     game_status |-> game_status]
       IN  response' =
             [response EXCEPT ![t] =
                 CASE f.op = "move" ->
                         [IdleResponse EXCEPT
                             !.record = f.record,
                             !.last_move = Some(to_dict(Get(f.record))),
                             !.state = Some(state)]
                   [] f.op = "restart" ->
                         [IdleResponse EXCEPT !.state = Some(state),
                                              !.history = Some(<<>>)]
                   [] OTHER -> [IdleResponse EXCEPT !.state = Some(state)]]
    /\ threads' = [threads EXCEPT ![t].pc = "responded", ![t].call = "returned"]
    /\ UNCHANGED <<board, current_turn, game_status, history, request,
                   before, played, conversion, validation>>

\* get_history, line 112: self.history is read and the comprehension begins
\* to iterate over that list.
LoadHistory(t) ==
    /\ threads[t].pc = "load_history"
    /\ Scheduled(t)
    /\ threads' = [threads EXCEPT ![t].pc = "read_record", ![t].call = "running"]
    /\ UNCHANGED <<board, current_turn, game_status, history, request, response,
                   before, played, conversion, validation>>

\* get_history, line 112, one iteration of the comprehension: the next
\* record of the list, if it has one, is converted by to_dict; otherwise
\* get_history returns and the handler makes its response (main.py, 132).
ReadRecord(t) ==
    /\ threads[t].pc = "read_record"
    /\ Scheduled(t)
    /\ LET f == threads[t]
           list == IF IsNone(f.held) THEN history ELSE Get(f.held)
           i == Len(f.listed)
       IN  IF i < Len(list)
              THEN /\ threads' = [threads EXCEPT
                                     ![t].listed = Append(@, to_dict(list[i + 1]))]
                   /\ response' = response
              ELSE /\ threads' = [threads EXCEPT ![t].pc = "responded",
                                                 ![t].call = "returned"]
                   /\ response' = [response EXCEPT ![t] =
                                      [IdleResponse EXCEPT !.history = Some(f.listed)]]
    /\ UNCHANGED <<board, current_turn, game_status, history, request,
                   before, played, conversion, validation>>

\* 1. Na3 Nf6 2. d3 Ng8 3. Be3 Nf6 4. Qd2 Ng8 5. Kd1 Nf6 6. Kc1 Ng8: the
\* white rook on a1 and the white king on c1 with b1 and d1 empty, white to
\* move.
RookKingOpening ==
    <<Call(98, 1, 97, 3), Call(103, 8, 102, 6), Call(100, 2, 100, 3), Call(102, 6, 103, 8),
      Call(99, 1, 101, 3), Call(103, 8, 102, 6), Call(100, 1, 100, 2), Call(102, 6, 103, 8),
      Call(101, 1, 100, 1), Call(103, 8, 102, 6), Call(100, 1, 99, 1), Call(102, 6, 103, 8)>>

\* The moves that are requested together with b1-a3 on the initial game:
\* b1-c3, a2-a3, a1-a2, a1-a1, a1-a9.
ConcurrentInputs ==
    {Call(98, 1, 99, 3), Call(97, 2, 97, 3), Call(97, 1, 97, 2),
     Call(97, 1, 97, 1), Call(97, 1, 97, 9)}

MoveFrame(f1, d1, f2, d2) == NewFrame(Sq(f1, d1), Sq(f2, d2), None)

\* The pairs of requests made together: the opening, the two requests and
\* the switches allowed.  Two moves: b1-a3 with each of ConcurrentInputs,
\* a1-d1 with c1-b1 where the rook's path ends next to the king, b7-a8 with
\* b7-c8 and code "x".  A read with a write: /state with b1-a3, /history
\* with b7-a8 and with /restart.  /restart with e2-e4, with /state and with
\* /restart: the 64 reads of a response against the 33 board writes of
\* restart, with the switches counted.
ConcurrentScenarios ==
    {<<<<>>, MoveFrame(98, 1, 97, 3), NewFrame(m[1], m[2], m[3]), Unbounded>> :
        m \in ConcurrentInputs}
    \cup
    {<<RookKingOpening, MoveFrame(97, 1, 100, 1), MoveFrame(99, 1, 98, 1), Unbounded>>,
     <<PromotionOpening, MoveFrame(98, 7, 97, 8),
       NewFrame(Sq(98, 7), Sq(99, 8), Some(<<120>>)), Unbounded>>,
     <<<<>>, StateFrame, MoveFrame(98, 1, 97, 3), Unbounded>>,
     <<PromotionOpening, HistoryFrame, MoveFrame(98, 7, 97, 8), Unbounded>>,
     <<PromotionOpening, HistoryFrame, RestartFrame, Unbounded>>,
     <<<<>>, MoveFrame(101, 2, 101, 4), RestartFrame, MaxPreemptions>>,
     <<PromotionOpening, StateFrame, RestartFrame, MaxPreemptions - 1>>,
     <<PromotionOpening, RestartFrame, RestartFrame, MaxPreemptions - 1>>}

\* Two requests are about to start on a game reached by an opening; before
\* keeps that game.
ConcInit ==
    \E s \in ConcurrentScenarios :
        LET g == Replay(Restarted, s[1])
        IN  /\ board = g.board
            /\ current_turn = g.current_turn
            /\ game_status = g.game_status
            /\ history = g.history
            /\ request = IdleRequest
            /\ response = [t \in Threads |-> IdleResponse]
            /\ before = g
            /\ played = 0
            /\ threads = [t \in Threads |-> IF t = 1 THEN s[2] ELSE s[3]]
            /\ schedule = [running |-> 0, left |-> s[4]]
            /\ conversion = NoConversion
            /\ validation = NoValidation

ConcNext ==
    \E t \in Threads :
        \/ StartCall(t)
        \/ ReadSource(t)
        \/ CheckTurn(t)
        \/ ReadTarget(t)
        \/ ValidateMove(t)
        \/ ReadPawnCell(t)
        \/ ReadPathCell(t)
        \/ WriteTarget(t)
        \/ ClearSource(t)
        \/ WritePromotion(t)
        \/ ReadLength(t)
        \/ AppendRecord(t)
        \/ ReadTurn(t)
        \/ WriteTurn(t)
        \/ RestartBoard(t)
        \/ RestartTurn(t)
        \/ RestartStatus(t)
        \/ RestartHistory(t)
        \/ PlacePiece(t)
        \/ RespondError(t)
        \/ ReadCell(t)
        \/ ReadStateTurn(t)
        \/ ReadStateStatus(t)
        \/ LoadHistory(t)
        \/ ReadRecord(t)

SpecConcurrent == ConcInit /\ [][ConcNext]_vars

----------------------------------------------------------------------------
(* C15: two apply_move calls that run on the same game without              *)
(* serialization, interleaved at their single reads and writes, can reach   *)
(* a state that no serial execution of the same two calls produces.         *)
(* Whenever two calls do not overlap, the game they leave is the one that   *)
(* the two calls, made one after the other in one of the two orders, give;  *)
(* when both are apply_move calls the board of such a game has no more      *)
(* pieces than before and two records added by the calls have different     *)
(* colors.  The witness is a game left by two overlapping apply_move calls  *)
(* that is neither of the serial outcomes: both read the same source piece  *)
(* and each wrote it to its own destination, so the board has one piece     *)
(* more than before and the log ends with two records of the same color.    *)
BothDone == \A t \in Threads : Done(t)

BothMoves == \A t \in Threads : threads[t].op = "move"

Overlapped == \E t \in Threads : threads[t].overlapped

CallOf(t) == <<threads[t].from_sq, threads[t].to_sq, threads[t].promotion>>

\* The game after the call of thread t is made, alone, on the game g.
SerialCall(g, t) ==
    CASE threads[t].op = "restart" -> Restarted
      [] threads[t].op = "move" -> Replay(g, <<CallOf(t)>>)
      [] OTHER -> g

SerialOutcomes ==
    {SerialCall(SerialCall(before, 1), 2), SerialCall(SerialCall(before, 2), 1)}

LastTwoRecordsSameColor ==
    /\ Len(history) = Len(before.history) + 2
    /\ history[Len(history)].color = history[Len(history) - 1].color

C15_OnlyOverlappingCallsLeaveSerial ==
    (BothDone /\ ~Overlapped) =>
        /\ Snapshot \in SerialOutcomes
        /\ BothMoves =>
              /\ PieceCount(board) <= PieceCount(before.board)
              /\ ~LastTwoRecordsSameColor

C15_Witness ==
    /\ BothDone
    /\ BothMoves
    /\ Overlapped
    /\ Snapshot \notin SerialOutcomes
    /\ PieceCount(board) = PieceCount(before.board) + 1
    /\ LastTwoRecordsSameColor

----------------------------------------------------------------------------
(* C16: every square name produced on output is a lowercase file letter     *)
(* a-h followed by a rank digit 1-8: in every state each position listed by *)
(* get_state, and the from and to fields of every record returned by        *)
(* get_history or by a successful apply_move, also when the move was        *)
(* submitted with uppercase file letters.  Stated as in the specification;  *)
(* the engine violates it: the record keeps the from and to strings exactly *)
(* as they were submitted.                                                  *)
IsLowercaseSquare(sq) ==
    /\ Len(sq) = 2
    /\ sq[1] \in 97..104
    /\ sq[2] \in 49..56

C16_OutputSquaresLowercase ==
    /\ LET listed == get_state(board, current_turn, game_status).board
       IN  \A k \in 1..Len(listed) : IsLowercaseSquare(listed[k].position)
    /\ LET log == get_history(history)
       IN  \A k \in 1..Len(log) :
              IsLowercaseSquare(log[k].from) /\ IsLowercaseSquare(log[k].to)
    /\ Succeeded =>
          LET returned == to_dict(Get(response.record))
          IN  IsLowercaseSquare(returned.from) /\ IsLowercaseSquare(returned.to)

----------------------------------------------------------------------------
(* C17: game_status is in_progress in every state, also when a king has     *)
(* been captured (no check or king-safety rule is enforced, so such states  *)
(* are reached), and no apply_move call fails with GameNotInProgress: the   *)
(* side that lost its king can still move.                                  *)
HasKing(b, color) ==
    \E row \in 0..7 : \E col \in 0..7 : b[row][col] = [type |-> "king", color |-> color]

C17_AlwaysInProgress ==
    /\ game_status = "in_progress"
    /\ Called => response.err # ErrNotInProgress

\* Black, whose king has been captured, makes a move and it is accepted.
C17_Witness ==
    /\ Succeeded
    /\ ~HasKing(before.board, "black")
    /\ before.current_turn = "black"
    /\ Get(response.record).color = "black"
    /\ HasKing(board, "white")

----------------------------------------------------------------------------
(* The coordinate conversions on their own: algebraic_to_index and          *)
(* index_to_algebraic applied to an input, and then to each other's result. *)
(* conversion.arg is the input, conversion.result the results so far, in    *)
(* the order they were computed.                                            *)

\* Bound on the conversions applied in a row to one input.
MaxConversions == 3

\* The characters ` a..h i, @ A..H I, 0 1..8 9.
ConversionChars == (96..105) \cup (64..73) \cup (48..57)

\* Every two-character string over ConversionChars, "", "a", "a22", "e2 ", and
\* strings with a character outside ASCII: a file letter U+00C0, U+0130,
\* U+212A or U+03A3, and a rank digit U+0661.
ConversionStrings ==
    {<<c1, c2>> : c1 \in ConversionChars, c2 \in ConversionChars}
        \cup {<<>>, <<97>>, <<97, 50, 50>>, <<101, 50, 32>>}
        \cup {<<192, 49>>, <<304, 49>>, <<8490, 49>>, <<931, 49>>, <<97, 1633>>}

\* Index pairs in and around the board.
ConversionIndices == (-1..8) \X (-1..8)

ConvInit ==
    /\ board = InitialBoard
    /\ current_turn = "white"
    /\ game_status = "in_progress"
    /\ history = <<>>
    /\ request = IdleRequest
    /\ response = IdleResponse
    /\ before = NoSnapshot
    /\ played = 0
    /\ threads = NoThreads
    /\ schedule = NoSchedule
    /\ validation = NoValidation
    /\ \/ \E sq \in ConversionStrings :
             conversion = [op |-> "none", arg |-> [kind |-> "square", value |-> sq],
                           result |-> <<>>]
       \/ \E idx \in ConversionIndices :
             conversion = [op |-> "none", arg |-> [kind |-> "index", value |-> idx],
                           result |-> <<>>]

LastResult == conversion.result[Len(conversion.result)]

\* algebraic_to_index(square), on the input or on the square that
\* index_to_algebraic has just returned.
AlgebraicToIndex ==
    /\ Len(conversion.result) < MaxConversions
    /\ \/ conversion.op = "none" /\ conversion.arg.kind = "square"
       \/ conversion.op = "index_to_algebraic" /\ LastResult.err = NoError
    /\ LET square == IF conversion.op = "none" THEN conversion.arg.value
                     ELSE LastResult.square
       IN  conversion' = [conversion EXCEPT
                             !.op = "algebraic_to_index",
                             !.result = Append(@, algebraic_to_index(square))]
    /\ UNCHANGED <<board, current_turn, game_status, history, request, response,
                   before, played, threads, schedule, validation>>

\* index_to_algebraic(idx), on the input or on the pair that
\* algebraic_to_index has just returned.
IndexToAlgebraic ==
    /\ Len(conversion.result) < MaxConversions
    /\ \/ conversion.op = "none" /\ conversion.arg.kind = "index"
       \/ conversion.op = "algebraic_to_index" /\ LastResult.err = NoError
    /\ LET idx == IF conversion.op = "none" THEN conversion.arg.value
                  ELSE <<LastResult.row, LastResult.col>>
       IN  conversion' = [conversion EXCEPT
                             !.op = "index_to_algebraic",
                             !.result = Append(@, index_to_algebraic(idx[1], idx[2]))]
    /\ UNCHANGED <<board, current_turn, game_status, history, request, response,
                   before, played, threads, schedule, validation>>

ConvNext == AlgebraicToIndex \/ IndexToAlgebraic

SpecConversion == ConvInit /\ [][ConvNext]_vars

----------------------------------------------------------------------------
(* C18: coordinate conversion round-trips.  For every well-formed square s  *)
(* (file a-h in either case, rank 1-8) algebraic_to_index(s) is             *)
(* (8 - rank, file - 'a'), which lies in [0,7] x [0,7], and converting that *)
(* pair back to a name and the name to a pair again gives the same pair;    *)
(* for every (row, col) in [0,7] x [0,7], converting to a name and back     *)
(* gives (row, col); every other string of two characters or of another     *)
(* length is rejected with InvalidSquare.                                   *)
C18_ConversionRoundTrips ==
    LET input == conversion.arg.value
        results == conversion.result
    IN  /\ (conversion.arg.kind = "square" /\ Len(results) >= 1) =>
              IF IsSquare(input)
                 THEN /\ results[1] = [err |-> NoError, row |-> 8 - (input[2] - 48),
                                       col |-> ColOf(input)]
                      /\ results[1].row \in 0..7
                      /\ results[1].col \in 0..7
                 ELSE results[1].err \in InvalidSquareErrors
        /\ (conversion.arg.kind = "square" /\ Len(results) >= 3) =>
              results[3] = results[1]
        /\ (conversion.arg.kind = "index" /\ input \in (0..7) \X (0..7)
              /\ Len(results) >= 2) =>
              results[2] = [err |-> NoError, row |-> input[1], col |-> input[2]]

\* "H1" converted to (7, 7), back to "h1", and to (7, 7) again.
C18_Witness ==
    /\ conversion.arg = [kind |-> "square", value |-> <<72, 49>>]
    /\ Len(conversion.result) = 3
    /\ conversion.result[1] = [err |-> NoError, row |-> 7, col |-> 7]
    /\ conversion.result[2] = [err |-> NoError, square |-> <<104, 49>>]
    /\ conversion.result[3] = conversion.result[1]

----------------------------------------------------------------------------
(* C19: board and log stay consistent.  In every state reached from         *)
(* restart by apply_move calls, accepted or rejected, the number of pieces  *)
(* on the board is 32 minus the number of log records with capture = true,  *)
(* and the piece captured by an accepted move had the color opposite to     *)
(* the mover's.  Stated as in the specification; the engine violates it: a  *)
(* pawn capturing onto its last rank with an invalid promotion code is      *)
(* rejected after the board has been written, so the captured piece is gone *)
(* and no record says so.                                                   *)
CaptureRecords == {k \in 1..Len(history) : history[k].capture}

C19_PieceCountMatchesLog ==
    /\ PieceCount(board) = 32 - Cardinality(CaptureRecords)
    /\ (Succeeded /\ Get(response.record).capture) =>
          /\ Target # NoPiece
          /\ Target.color # Mover.color
          /\ Target.color # Get(response.record).color

----------------------------------------------------------------------------
(* C20: in every state reached from restart by apply_move calls with any    *)
(* promotion argument (valid, invalid or omitted) no pawn of either color   *)
(* stands on row 0 or row 7: an accepted pawn move goes forward, and a pawn *)
(* arriving on its last rank is replaced by a queen, rook, bishop or knight *)
(* within the same call.  Stated as in the specification; the engine        *)
(* violates it: with an invalid promotion code the pawn is put on its last  *)
(* rank, the call is then rejected, and the pawn stays there.               *)
PawnOnLastRank(b) ==
    \E row \in {0, 7} : \E col \in 0..7 : b[row][col].type = "pawn"

C20_NoPawnOnLastRank ==
    /\ ~PawnOnLastRank(board)
    /\ (Succeeded /\ Mover.type = "pawn") =>
          /\ Dr = (IF Mover.color = "white" THEN -1 ELSE 1)
                \/ Dr = (IF Mover.color = "white" THEN -2 ELSE 2)
          /\ ReachesLastRank =>
                board[RowOf(request.to_sq)][ColOf(request.to_sq)].type
                    \in {"queen", "rook", "bishop", "knight"}

----------------------------------------------------------------------------
(* One apply_move call followed through its validation: the checks before   *)
(* _validate_piece_move are one step, the pattern check of the piece is one *)
(* step, every iteration of the while loop of _require_clear_path is one    *)
(* step, and the execution of the move is one step.  validation holds the   *)
(* call's arguments and locals: the loop cursor (r, c), the number of       *)
(* iterations made, and reads, the (row, col) pairs with which the          *)
(* validation has indexed the board.                                        *)

NewValidation(from_sq, to_sq, promotion) ==
    [pc |-> "call", from_sq |-> from_sq, to_sq |-> to_sq, promotion |-> promotion,
     fr |-> <<0, 0>>, to |-> <<0, 0>>, piece |-> NoPiece, capture |-> FALSE,
     r |-> 0, c |-> 0, step_r |-> 0, step_c |-> 0, iterations |-> 0,
     reads |-> {}, err |-> NoError]

\* raise IllegalMoveError(e), or the IndexError of a list index out of range
ValidationRaise(e) == [validation EXCEPT !.pc = "raised", !.err = e]

\* The (row, col) pairs with which _validate_pawn_move indexes the board.
pawn_cells_read(b, piece, fr, to, dr, dc, capture, promotion) ==
    LET direction == IF piece.color = "white" THEN -1 ELSE 1
        start_row == IF piece.color = "white" THEN 6 ELSE 1
        intermediate == <<fr[1] + direction, fr[2]>>
    IN  IF ~IsNone(promotion) /\ to[1] \notin {0, 7} THEN {}
        ELSE IF capture THEN {}
        ELSE IF dc # 0 THEN {}
        ELSE IF dr = direction THEN {to}
        ELSE IF fr[1] = start_row /\ dr = 2 * direction
            THEN (IF CellAt(b, intermediate[1], intermediate[2]) # NoPiece
                     THEN {intermediate} ELSE {intermediate, to})
        ELSE {}

\* Lines 120-139: the checks of apply_move that precede _validate_piece_move.
BeginApplyMove ==
    /\ validation.pc = "call"
    /\ LET v == validation
           pf == algebraic_to_index(v.from_sq)
           pt == algebraic_to_index(v.to_sq)
           fr == <<pf.row, pf.col>>
           to == <<pt.row, pt.col>>
           piece == board[fr[1]][fr[2]]
           target == board[to[1]][to[2]]
       IN  validation' =
             IF game_status # "in_progress" THEN ValidationRaise(ErrNotInProgress)
             ELSE IF v.from_sq = v.to_sq THEN ValidationRaise(ErrSameSquare)
             ELSE IF pf.err # NoError THEN ValidationRaise(pf.err)
             ELSE IF pt.err # NoError THEN ValidationRaise(pt.err)
             ELSE IF check_source(piece, current_turn) # NoError
                THEN ValidationRaise(check_source(piece, current_turn))
             ELSE IF check_target(piece, target) # NoError
                THEN ValidationRaise(check_target(piece, target))
             ELSE [v EXCEPT !.pc = "validate", !.fr = fr, !.to = to, !.piece = piece,
                            !.capture = target # NoPiece]
    /\ UNCHANGED <<board, current_turn, game_status, history, request, response,
                   before, played, threads, schedule, conversion>>

\* _validate_piece_move up to the call of _require_clear_path: the pawn,
\* knight and king rules in full, the pattern check of a bishop, rook or
\* queen, and lines 296-303, which set the loop cursor next to the source.
ValidatePattern ==
    /\ validation.pc = "validate"
    /\ LET v == validation
           dr == v.to[1] - v.fr[1]
           dc == v.to[2] - v.fr[2]
           e == CASE v.piece.type = "pawn" ->
                        validate_pawn_move(board, v.piece, v.fr, v.to, dr, dc,
                                           v.capture, v.promotion)
                  [] v.piece.type = "knight" -> validate_knight(dr, dc)
                  [] v.piece.type = "king" -> validate_king(dr, dc)
                  [] v.piece.type \in {"bishop", "rook", "queen"} ->
                        slider_pattern(v.piece.type, dr, dc)
                  [] OTHER -> ErrUnknownPiece
           cells == IF v.piece.type = "pawn"
                       THEN pawn_cells_read(board, v.piece, v.fr, v.to, dr, dc,
                                            v.capture, v.promotion)
                       ELSE {}
       IN  validation' =
             IF e # NoError THEN [ValidationRaise(e) EXCEPT !.reads = cells]
             ELSE IF v.piece.type \in {"bishop", "rook", "queen"}
                THEN [v EXCEPT !.pc = "loop",
                               !.step_r = Sign(dr), !.step_c = Sign(dc),
                               !.r = v.fr[1] + Sign(dr), !.c = v.fr[2] + Sign(dc)]
             ELSE [v EXCEPT !.pc = "execute", !.reads = cells]
    /\ UNCHANGED <<board, current_turn, game_status, history, request, response,
                   before, played, threads, schedule, conversion>>

\* Lines 304-308, one iteration: while (r, c) != to, self.board[r][c] is
\* read and the cursor moves one step.
LoopIteration ==
    /\ validation.pc = "loop"
    /\ <<validation.r, validation.c>> # validation.to
    /\ LET v == validation
       IN  validation' =
             IF ~(InRange(v.r) /\ InRange(v.c))
                THEN [ValidationRaise(IndexError) EXCEPT
                         !.reads = @ \cup {<<v.r, v.c>>}]
             ELSE IF CellAt(board, v.r, v.c) # NoPiece
                THEN [ValidationRaise(ErrPathBlocked) EXCEPT
                         !.reads = @ \cup {<<v.r, v.c>>}]
             ELSE [v EXCEPT !.r = @ + v.step_r, !.c = @ + v.step_c,
                            !.iterations = @ + 1,
                            !.reads = @ \cup {<<v.r, v.c>>}]
    /\ UNCHANGED <<board, current_turn, game_status, history, request, response,
                   before, played, threads, schedule, conversion>>

\* Line 304 with (r, c) == to: the loop ends, _require_clear_path returns.
LoopExit ==
    /\ validation.pc = "loop"
    /\ <<validation.r, validation.c>> = validation.to
    /\ validation' = [validation EXCEPT !.pc = "execute"]
    /\ UNCHANGED <<board, current_turn, game_status, history, request, response,
                   before, played, threads, schedule, conversion>>

\* Lines 143-177: the move is executed, recorded, and the call returns (or
\* raises for an invalid promotion code).
ExecuteMove ==
    /\ validation.pc = "execute"
    /\ LET v == validation
           o == apply_validated(board, current_turn, history, v.from_sq, v.to_sq,
                                v.promotion, v.piece, v.fr, v.to, v.capture)
       IN  /\ board' = o.board
           /\ current_turn' = o.current_turn
           /\ history' = o.history
           /\ validation' = IF o.err = NoError THEN [v EXCEPT !.pc = "returned"]
                            ELSE ValidationRaise(o.err)
    /\ UNCHANGED <<game_status, request, response, before, played, threads, schedule, conversion>>

\* One call, with any of the inputs, is about to start on a game reached by
\* one of the openings; before keeps that game.
TermInit ==
    \E o \in Openings : \E m \in MoveInputs :
        LET g == Replay(Restarted, o)
        IN  /\ board = g.board
            /\ current_turn = g.current_turn
            /\ game_status = g.game_status
            /\ history = g.history
            /\ request = IdleRequest
            /\ response = IdleResponse
            /\ before = g
            /\ played = 0
            /\ threads = NoThreads
            /\ schedule = NoSchedule
            /\ conversion = NoConversion
            /\ validation = NewValidation(m[1], m[2], m[3])

TermNext ==
    \/ BeginApplyMove
    \/ ValidatePattern
    \/ LoopIteration
    \/ LoopExit
    \/ ExecuteMove

\* The call is synchronous and nothing suspends it: its next step is taken.
SpecTermination == TermInit /\ [][TermNext]_vars /\ WF_vars(TermNext)

----------------------------------------------------------------------------
(* C21: apply_move terminates for every input in every reachable state.     *)
(* The path-clearance loop is entered only for a displacement that lies on  *)
(* one rank, one file or one diagonal (the bishop, rook and queen pattern   *)
(* checks precede it), so its cursor, which after k iterations stands k + 1 *)
(* steps from the source, reaches the destination after                     *)
(* max(|dr|, |dc|) - 1 iterations unless a blocked cell ends the loop       *)
(* earlier; every board cell that the loop or the pawn checks read has row  *)
(* and column in [0, 7], and no list index is ever out of range.  The call  *)
(* followed step by step ends with the error, board, turn and log that      *)
(* apply_move gives for the same game and arguments.                        *)
ValidationDone == validation.pc \in {"returned", "raised"}

LoopDr == validation.to[1] - validation.fr[1]

LoopDc == validation.to[2] - validation.fr[2]

LoopLength == Max2(Abs(LoopDr), Abs(LoopDc))

OnOneLine ==
    /\ <<LoopDr, LoopDc>> # <<0, 0>>
    /\ LoopDr = 0 \/ LoopDc = 0 \/ Abs(LoopDr) = Abs(LoopDc)

OnBoard(cell) == cell[1] \in 0..7 /\ cell[2] \in 0..7

AtomicOutcome ==
    apply_move(before.board, before.current_turn, before.game_status, before.history,
               validation.from_sq, validation.to_sq, validation.promotion)

ValidationInBounds ==
    /\ validation.pc = "loop" =>
          /\ OnOneLine
          /\ validation.iterations <= LoopLength - 1
          /\ validation.r = validation.fr[1] + (validation.iterations + 1) * validation.step_r
          /\ validation.c = validation.fr[2] + (validation.iterations + 1) * validation.step_c
          /\ OnBoard(<<validation.r, validation.c>>)
          /\ (validation.iterations = LoopLength - 1) <=>
                (<<validation.r, validation.c>> = validation.to)
    /\ \A cell \in validation.reads : OnBoard(cell)
    /\ validation.err # IndexError
    /\ (validation.pc \in {"execute", "returned"}
          /\ validation.piece.type \in {"bishop", "rook", "queen"}) =>
          validation.iterations = LoopLength - 1
    /\ ValidationDone =>
          /\ validation.err = AtomicOutcome.err
          /\ board = AtomicOutcome.board
          /\ current_turn = AtomicOutcome.current_turn
          /\ history = AtomicOutcome.history

C21_ApplyMoveTerminates == []ValidationInBounds /\ <>ValidationDone

\* A slider's move accepted after the loop has looked at two or more cells
\* in between and found them empty.
C21_Witness ==
    /\ validation.pc = "returned"
    /\ validation.piece.type \in {"bishop", "rook", "queen"}
    /\ validation.iterations >= 2
    /\ validation.iterations = LoopLength - 1
    /\ Cardinality(validation.reads) = validation.iterations

====
